---- MODULE Spec2Model ----
(***************************************************************************)
(* A model of the dagger execution engine (github.com/ajatprabha/dagger): *)
(* the step arena, the cycle validator run by New, the Executor with its  *)
(* middleware chain, and the execution of the composite steps.            *)
(***************************************************************************)
EXTENDS Naturals, Integers, Sequences, FiniteSets, TLC

VARIABLES
    graph,      \* the step arena: graph[n] is the step object with identity n
    root,       \* the step handed to New
    pc,         \* "new" (New is validating), "idle", "exec", "done", "invalid"
    visited,    \* checkDAGRecursive's visited map (its key set)
    vstack,     \* the activations of checkDAGRecursive, innermost last
    vlog,       \* the steps checkDAGRecursive was called on, in call order
    e,          \* the *Executor New returned (Nil: none)
    newErr,     \* the error New returned (Nil: none)
    stack,      \* the activations of Exec methods, innermost last
    ret,        \* the value returned by the activation that finished last
    acts,       \* number of step executions started so far
    trace,      \* what happened during Executor.Exec, in order
    result,     \* the value Executor.Exec returned (NoResult before it returns)
    others      \* what the other calls of Exec on the Executor hold, each for itself

vars == <<graph, root, pc, visited, vstack, vlog, e, newErr, stack, ret, acts, trace, result,
          others>>

\* Go's nil (of an error, a Step, a handler or a pointer), and "not returned yet".
Nil == [kind |-> "nil"]
NoResult == [kind |-> "none"]
\* A nil Step.
NoStep == 0

\* ------------------------------------------------------------------ bounds
NumNodes == 3
MaxChildren == 3
ExecNodes == 3
ExecChildren == 2
MaxChain == 1
MaxBranches == 3
ConcNodes == 2
MaxCalls == 2
MwNodes == 2
ShortChain == 3
MwChain == 2

\* ------------------------------------------------------------ step objects
Last(s) == s[Len(s)]
Front(s) == SubSeq(s, 1, Len(s) - 1)

RECURSIVE SeqsUpTo(_, _)
SeqsUpTo(S, k) ==
    IF k = 0 THEN {<<>>}
    ELSE LET shorter == SeqsUpTo(S, k - 1)
         IN  shorter \cup {Append(s, x) : s \in {t \in shorter : Len(t) = k - 1}, x \in S}

\* NewStep(f): a StepFunc.
NewStep(f) == [kind |-> "StepFunc", fn |-> f]
\* NewResultErrStep(f): a stepWithErr.
NewResultErrStep(f) == [kind |-> "stepWithErr", fn |-> f]
\* If keeps the Selector; IfNot wraps it in a negating closure.
If(condition, thenStep) ==
    [kind |-> "ifStep", condition |-> [sel |-> condition, neg |-> FALSE], thenStep |-> thenStep]
IfNot(condition, thenStep) ==
    [kind |-> "ifStep", condition |-> [sel |-> condition, neg |-> TRUE], thenStep |-> thenStep]
IfElse(condition, thenStep, elseStep) ==
    [kind |-> "ifElseStep", condition |-> [sel |-> condition, neg |-> FALSE],
     thenStep |-> thenStep, elseStep |-> elseStep]
Series(steps) == [kind |-> "seriesStep", steps |-> steps]
Continue(steps) == [kind |-> "continueStep", steps |-> steps]
Result(mainStep, successStep, failureHandler) ==
    [kind |-> "resultStep", mainStep |-> mainStep, successStep |-> successStep,
     failureHandler |-> failureHandler]

\* Failure handlers: a StepFunc used as handler, a branch, a default branch.
HandlerStepFunc(step) == [kind |-> "StepFunc", step |-> step]
NewBranch(selector, step) == [kind |-> "failureBranch", selector |-> selector, step |-> step]
DefaultBranch(step) == [kind |-> "defaultBranch", step |-> step]

IsLeaf(s) == s.kind \in {"StepFunc", "stepWithErr"}

\* StepName: a StepFunc is named after its function, every other step after its type.
StepName(s) == IF s.kind = "StepFunc" THEN s.fn ELSE s.kind

\* fmt.Sprintf("%p", step): the address of a pointer-typed step, the code
\* pointer of a function-typed step (shared by all steps made of that function).
Ptr(n) == IF IsLeaf(graph[n]) THEN <<"func", graph[n].fn>> ELSE <<"obj", n>>

\* The Unwrap methods.
ifStepUnwrap(s) == s.thenStep
ifElseStepUnwrap(s) == <<s.thenStep, s.elseStep>>
seriesStepUnwrap(s) == s.steps
continueStepUnwrap(s) == s.steps
resultStepUnwrap(s) == <<s.mainStep, s.successStep>>

\* The type switch of checkDAGRecursive: which Unwrap the step has.
HasUnwrapOne(s) == s.kind = "ifStep"
HasUnwrapMany(s) == s.kind \in {"ifElseStep", "seriesStep", "continueStep", "resultStep"}
UnwrapMany(s) ==
    CASE s.kind = "ifElseStep" -> ifElseStepUnwrap(s)
      [] s.kind = "seriesStep" -> seriesStepUnwrap(s)
      [] s.kind = "continueStep" -> continueStepUnwrap(s)
      [] s.kind = "resultStep" -> resultStepUnwrap(s)

\* ------------------------------------------------------------------ errors
ErrCycleOf(name) == [type |-> "ErrCycle", stepName |-> name]
ErrInvalidOf(err) == [type |-> "ErrInvalid", err |-> err]

\* HandleMultiFailure(branches...)
HandleMultiFailure(branches) == [kind |-> "multiFailureHandler", branches |-> branches]

\* ------------------------------------------------------- the step arenas
\* The failure handlers the Results of an arena are given: for the arenas New
\* is checked on, and for the arenas that are executed.
NewHandlers(g) == {Nil} \cup {HandleMultiFailure(<<DefaultBranch(c)>>) : c \in DOMAIN g}
ExecHandlers(g) ==
    {Nil}
    \cup {HandlerStepFunc(c) : c \in {d \in DOMAIN g : g[d].kind = "StepFunc"}}
    \cup {HandleMultiFailure(<<NewBranch("s", c)>>) : c \in DOMAIN g}
HandlersOf(family, g) == IF family = "new" THEN NewHandlers(g) ELSE ExecHandlers(g)

\* The step objects a constructor call can build from the steps in C.
NodeChoices(g, leaves, family, maxc) ==
    LET C == DOMAIN g
    IN
    leaves
    \cup {If("p", c) : c \in C}
    \cup {IfNot("p", c) : c \in C}
    \cup {IfElse("p", c, d) : c \in C, d \in C}
    \cup {Series(cs) : cs \in SeqsUpTo(C, maxc)}
    \cup {Continue(cs) : cs \in SeqsUpTo(C, maxc)}
    \cup {Result(c, d, h) : c \in C, d \in C, h \in HandlersOf(family, g)}

\* Arenas built bottom-up by the constructors: step k is made of steps 1..k-1.
RECURSIVE Arenas(_, _, _, _)
Arenas(k, leaves, family, maxc) ==
    IF k = 0 THEN {<<>>}
    ELSE UNION {{Append(g, s) : s \in NodeChoices(g, leaves, family, maxc)} :
                   g \in Arenas(k - 1, leaves, family, maxc)}

\* The child slots of a step object, and the assignment of a step to a slot
\* (the only way a constructed step comes to reach itself).
Slots(s) ==
    CASE s.kind = "ifStep" -> {<<"thenStep", 0>>}
      [] s.kind = "ifElseStep" -> {<<"thenStep", 0>>, <<"elseStep", 0>>}
      [] s.kind \in {"seriesStep", "continueStep"} -> {<<"steps", i>> : i \in 1 .. Len(s.steps)}
      [] s.kind = "resultStep" ->
            {<<"mainStep", 0>>, <<"successStep", 0>>}
            \cup (IF s.failureHandler = Nil THEN {}
                  ELSE {<<"failureHandler", i>> : i \in 1 .. Len(s.failureHandler.branches)})
      [] OTHER -> {}

SetSlot(s, slot, m) ==
    CASE slot[1] = "steps" -> [s EXCEPT !.steps[slot[2]] = m]
      [] slot[1] = "failureHandler" -> [s EXCEPT !.failureHandler.branches[slot[2]].step = m]
      [] OTHER -> [s EXCEPT ![slot[1]] = m]

Rewired(G) ==
    {[g EXCEPT ![n] = SetSlot(g[n], slot, m)] :
        <<g, n, slot, m>> \in {<<g, n, slot, m>> \in G \X (1 .. NumNodes) \X
                                  ({"thenStep", "elseStep", "steps", "mainStep", "successStep",
                                    "failureHandler"} \X (0 .. MaxChildren)) \X (1 .. NumNodes) :
                                  n \in DOMAIN g /\ m \in DOMAIN g /\ slot \in Slots(g[n])}}

NewLeaves == {NewStep("f"), NewResultErrStep("g")}
\* The graphs of k steps New is checked on: the arenas, and the arenas with
\* one child slot reassigned.
NewArenas(k) == Arenas(k, NewLeaves, "new", MaxChildren)
NewGraphs(k) == NewArenas(k) \cup Rewired(NewArenas(k))

\* ------------------------------------------------- the shape of the graph
Range(f) == {f[i] : i \in DOMAIN f}

\* The steps a failure handler can select.
HandlerSteps(h) ==
    IF h = Nil THEN {}
    ELSE IF h.kind = "multiFailureHandler" THEN {h.branches[i].step : i \in DOMAIN h.branches}
    ELSE {h.step}

\* The children of a step: the then-child of If/IfNot, then/else of IfElse, the
\* children of Series/Continue, main/success of Result.
AccessorChildren(n) ==
    LET s == graph[n]
    IN  CASE s.kind = "ifStep" -> {s.thenStep}
          [] s.kind = "ifElseStep" -> {s.thenStep, s.elseStep}
          [] s.kind \in {"seriesStep", "continueStep"} -> Range(s.steps)
          [] s.kind = "resultStep" -> {s.mainStep, s.successStep}
          [] OTHER -> {}

\* The same, the steps a Result's failure handler can select included.
AllChildren(n) ==
    AccessorChildren(n) \cup
    (IF graph[n].kind = "resultStep" THEN HandlerSteps(graph[n].failureHandler) ELSE {})

\* The children relation a claim speaks of: the accessors alone, or with the
\* steps of the failure handlers.
ChildrenIn(rel, n) == IF rel = "accessors" THEN AccessorChildren(n) ELSE AllChildren(n)

RECURSIVE Closure(_, _, _)
Closure(S, rel, k) ==
    IF k = 0 THEN S ELSE Closure(S \cup UNION {ChildrenIn(rel, n) : n \in S}, rel, k - 1)

\* The steps reachable from n in one edge or more.
Descendants(n, rel) == Closure(ChildrenIn(rel, n), rel, Len(graph))
OnCycle(n, rel) == n \in Descendants(n, rel)
FromRoot(rel) == {root} \cup Descendants(root, rel)
HasCycle(rel) == \E n \in FromRoot(rel) : OnCycle(n, rel)

\* Only the steps the start step leads to belong to the program: the other
\* entries of the arena are all the same StepFunc.
NoStrayStep == \A n \in DOMAIN graph : n \in FromRoot("all") \/ graph[n] = NewStep("f")

\* --------------------------------------------------------------------- New
NewOk(startStep) == [e |-> [start |-> startStep, middlewares |-> <<>>], err |-> Nil]
NewFail_KeepsExecutor(err) == [e |-> [start |-> NoStep, middlewares |-> <<>>], err |-> ErrInvalidOf(err)]
NewFail(err) == [e |-> Nil, err |-> ErrInvalidOf(err)]

\* The activation of checkDAGRecursive(step, visited) at its first line.
CheckFrame(n) == [step |-> n, at |-> "enter", i |-> 0]

\* What the type switch of checkDAGRecursive does after visited[ptr] is set.
AfterMark(s) ==
    IF HasUnwrapOne(s) THEN "tail"
    ELSE IF HasUnwrapMany(s) THEN "children"
    ELSE "leave"

\* What a call of Exec that has not started holds.
Fresh == [pc |-> "idle", stack |-> <<>>, ret |-> Nil, acts |-> 0, trace |-> <<>>,
          result |-> NoResult]

\* New calls checkDAGCycles, which calls checkDAGRecursive on the start step.
StartNewWith(g, r, calls) ==
    /\ graph = g
    /\ root = r
    /\ pc = "new"
    /\ visited = {}
    /\ vstack = <<CheckFrame(r)>>
    /\ vlog = <<>>
    /\ e = Nil
    /\ newErr = Nil
    /\ stack = <<>>
    /\ ret = Nil
    /\ acts = 0
    /\ trace = <<>>
    /\ result = NoResult
    /\ others = [i \in 1 .. calls - 1 |-> Fresh]

StartNew(g, r) == StartNewWith(g, r, 1)

ExecUnchanged == UNCHANGED <<stack, ret, acts, trace, result, others>>

\* checkDAGRecursive returned nil to its caller: the caller's frame is on top
\* again, or New builds the Executor.
ReturnNil(rest) ==
    /\ vstack' = rest
    /\ IF rest = <<>>
       THEN /\ pc' = "idle"
            /\ e' = NewOk(root).e
            /\ newErr' = NewOk(root).err
       ELSE UNCHANGED <<pc, e, newErr>>

\* Lines 74-81: look the step up in visited; a hit is returned as ErrCycle by
\* every caller up to New, which wraps it in ErrInvalid.
Visit ==
    /\ pc = "new" /\ vstack # <<>>
    /\ LET f == Last(vstack)
           s == graph[f.step]
       IN  /\ f.at = "enter"
           /\ vlog' = Append(vlog, f.step)
           /\ IF Ptr(f.step) \in visited
              THEN /\ pc' = "invalid"
                   /\ e' = NewFail(ErrCycleOf(StepName(s))).e
                   /\ newErr' = NewFail(ErrCycleOf(StepName(s))).err
                   /\ vstack' = <<>>
                   /\ UNCHANGED visited
              ELSE /\ visited' = visited \cup {Ptr(f.step)}
                   /\ vstack' = Append(Front(vstack), [f EXCEPT !.at = AfterMark(s)])
                   /\ UNCHANGED <<pc, e, newErr>>
    /\ UNCHANGED <<graph, root>>
    /\ ExecUnchanged

\* Lines 85-92: the recursive call on the single child, or on the next child.
Descend ==
    /\ pc = "new" /\ vstack # <<>>
    /\ LET f == Last(vstack)
           s == graph[f.step]
           children == IF f.at = "tail" THEN <<ifStepUnwrap(s)>> ELSE UnwrapMany(s)
       IN  /\ f.at \in {"tail", "children"}
           /\ f.i < Len(children)
           /\ vstack' = Front(vstack) \o <<[f EXCEPT !.i = f.i + 1], CheckFrame(children[f.i + 1])>>
    /\ UNCHANGED <<graph, root, pc, visited, vlog, e, newErr>>
    /\ ExecUnchanged

\* Line 86: the result of the single child's check is returned as it is.
TailReturn ==
    /\ pc = "new" /\ vstack # <<>>
    /\ LET f == Last(vstack)
       IN  /\ f.at = "tail" /\ f.i = 1
           /\ ReturnNil(Front(vstack))
    /\ UNCHANGED <<graph, root, visited, vlog>>
    /\ ExecUnchanged

\* Lines 95-96: the loop (or the switch) is over: delete(visited, ptr), return nil.
Leave ==
    /\ pc = "new" /\ vstack # <<>>
    /\ LET f == Last(vstack)
           s == graph[f.step]
       IN  /\ \/ f.at = "leave"
              \/ f.at = "children" /\ f.i = Len(UnwrapMany(s))
           /\ visited' = visited \ {Ptr(f.step)}
           /\ ReturnNil(Front(vstack))
    /\ UNCHANGED <<graph, root, vlog>>
    /\ ExecUnchanged

InitNew == \E g \in NewGraphs(NumNodes) : StartNew(g, NumNodes) /\ NoStrayStep
NextNew == Visit \/ Descend \/ TailReturn \/ Leave
SpecNew == InitNew /\ [][NextNew]_vars

\* ------------------------------------------------------------ errors (2)
\* The error a leaf returns when its execution number act fails.
LeafErr(act) == [type |-> "error", at |-> act]

\* fmt.Errorf("error executing step %s: %w", StepName(step), stepErr)
Errorf(name, stepErr) == [type |-> "wrapError", step |-> name, err |-> stepErr]

Join_DropsEarlier(err, x) == [type |-> "joinError", errs |-> <<x>>]

\* errors.Join(err, x) for a non-nil x: nil arguments are dropped, the others
\* become the errs of a new joinError.
Join(err, x) ==
    IF err = Nil THEN [type |-> "joinError", errs |-> <<x>>]
    ELSE [type |-> "joinError", errs |-> <<err, x>>]

\* ----------------------------------------------------- context, middleware
\* The state handed to Exec: the indent of useState, zero at first.
States == {0}
\* The logging interceptors L1 and L2, and one that writes the names of the
\* steps that cannot be skipped.
Interceptors == {"L1", "L2"}
MwInterceptors == Interceptors \cup {"Skip"}

\* context.TODO()
Background == [hasChain |-> FALSE, chain |-> <<>>, resErr |-> Nil, done |-> FALSE]
\* A context that was cancelled, or whose deadline has passed, before the call:
\* ctx.Err() is not nil. Every context derived from it is done as well.
Cancelled == [Background EXCEPT !.done = TRUE]
Contexts == {Background, Cancelled}
Canceled == [type |-> "context.Canceled"]
resultErrToContext_Drops(ctx, err) == ctx
resultErrToContext_KeepsOuter(ctx, err) ==
    IF ctx.resErr # Nil THEN ctx ELSE [ctx EXCEPT !.resErr = err]
withMiddlewares(ctx, chain) == [ctx EXCEPT !.hasChain = TRUE, !.chain = chain]
resultErrToContext(ctx, err) == [ctx EXCEPT !.resErr = err]
resultErrFromContext(ctx) == ctx.resErr

canSkip_NotResult(s) == s.kind \in {"ifStep", "ifElseStep", "seriesStep", "continueStep"}
canSkip(s) == s.kind \in {"ifStep", "ifElseStep", "seriesStep", "continueStep", "resultStep"}
stepInfo(s) == [Name |-> StepName(s), CanSkip |-> canSkip(s)]

\* The values that implement Step while the graph runs: a step of the arena,
\* the method value f.exec of a stepWithErr, and the Step an interceptor
\* returned for (next, info).
Node(n) == [t |-> "node", n |-> n]
ExecFn(n) == [t |-> "exec-fm", n |-> n]
MwApply(mw, next, info) == [t |-> "wrapped", mw |-> mw, next |-> next, info |-> info]

\* MiddlewareChain.apply: the interceptors are applied from the last to the
\* first, so that the first one is the outermost.
RECURSIVE applyFrom(_, _, _, _)
applyFrom(mwc, i, next, info) ==
    IF i = 0 THEN next ELSE applyFrom(mwc, i - 1, MwApply(mwc[i], next, info), info)
apply_SkipsFirst(mwc, next, info) ==
    IF mwc = <<>> THEN next ELSE applyFrom(Tail(mwc), Len(mwc) - 1, next, info)
apply_InnerFirst(mwc, next, info) ==
    applyFrom([k \in 1 .. Len(mwc) |-> mwc[Len(mwc) + 1 - k]], Len(mwc), next, info)
apply(mwc, next, info) == applyFrom(mwc, Len(mwc), next, info)

\* The interceptor calls apply makes, in the order it makes them.
ApplyEvents(mwc, info, act) ==
    [k \in 1 .. Len(mwc) |->
        [ev |-> "apply", act |-> act, mw |-> mwc[Len(mwc) + 1 - k], info |-> info]]

\* ------------------------------------------------------------ activations
\* An activation of some Step's Exec(ctx, state). act numbers the execution of
\* the arena step it belongs to, first tells the activation its caller started.
Frame(step, ctx, state, act, first) ==
    [step |-> step, ctx |-> ctx, state |-> state, act |-> act, first |-> first,
     at |-> "start", i |-> 0, err |-> Nil]

\* What an activation does next: return val, or call Exec on a Step.
DoReturn(val, events) == [op |-> "return", val |-> val, events |-> events]
DoCall(self, callee, events, started) ==
    [op |-> "call", self |-> self, callee |-> callee, events |-> events, started |-> started]

execWithContext_Bare(f, self, ctx, n, slot, events) ==
    DoCall(self, Frame(Node(n), ctx, f.state, acts + 1, TRUE),
           events \o <<[ev |-> "call", act |-> acts + 1, n |-> n, by |-> f.act, slot |-> slot,
                        state |-> f.state]>>, 1)

execWithContext_ReadsExecutor(f, self, ctx, n, slot, events) ==
    LET act == acts + 1
        info == stepInfo(graph[n])
        called == [ev |-> "call", act |-> act, n |-> n, by |-> f.act, slot |-> slot,
                   state |-> f.state]
    IN  IF ctx.hasChain
        THEN DoCall(self, Frame(apply(e.middlewares, Node(n), info), ctx, f.state, act, TRUE),
                    events \o <<called>> \o ApplyEvents(e.middlewares, info, act), 1)
        ELSE DoCall(self, Frame(Node(n), ctx, f.state, act, TRUE), events \o <<called>>, 1)

execWithContext_LosesContext(f, self, ctx, n, slot, events) ==
    LET act == acts + 1
        info == stepInfo(graph[n])
        called == [ev |-> "call", act |-> act, n |-> n, by |-> f.act, slot |-> slot,
                   state |-> f.state]
        fresh == withMiddlewares(Background, ctx.chain)
    IN  IF ctx.hasChain
        THEN DoCall(self, Frame(apply(ctx.chain, Node(n), info), fresh, f.state, act, TRUE),
                    events \o <<called>> \o ApplyEvents(ctx.chain, info, act), 1)
        ELSE DoCall(self, Frame(Node(n), ctx, f.state, act, TRUE), events \o <<called>>, 1)

\* execWithContext(ctx, step, state), called by the activation f for its child
\* in the given slot: the step is wrapped with the chain found in ctx.
execWithContext(f, self, ctx, n, slot, events) ==
    LET act == acts + 1
        info == stepInfo(graph[n])
        called == [ev |-> "call", act |-> act, n |-> n, by |-> f.act, slot |-> slot,
                   state |-> f.state]
    IN  IF ctx.hasChain
        THEN DoCall(self, Frame(apply(ctx.chain, Node(n), info), ctx, f.state, act, TRUE),
                    events \o <<called>> \o ApplyEvents(ctx.chain, info, act), 1)
        ELSE DoCall(self, Frame(Node(n), ctx, f.state, act, TRUE), events \o <<called>>, 1)

\* The activation on top of the stack carries out d.
Do(d) ==
    LET f == Last(stack)
        exited == IF f.step.t = "node" THEN <<[ev |-> "exit", act |-> f.act, err |-> d.val]>>
                  ELSE <<>>
        returned == (IF f.first THEN <<[ev |-> "ret", act |-> f.act, err |-> d.val]>> ELSE <<>>)
    IN  IF d.op = "return"
        THEN /\ stack' = Front(stack)
             /\ ret' = d.val
             /\ trace' = trace \o d.events \o exited \o returned
             /\ acts' = acts
             /\ IF Len(stack) = 1
                THEN pc' = "done" /\ result' = d.val
                ELSE UNCHANGED <<pc, result>>
        ELSE /\ stack' = Front(stack) \o <<d.self, d.callee>>
             /\ ret' = Nil
             /\ trace' = trace \o d.events
             /\ acts' = acts + d.started
             /\ UNCHANGED <<pc, result>>

NewUnchanged == UNCHANGED <<graph, root, visited, vstack, vlog, newErr, others>>

Running(kind) ==
    /\ pc = "exec" /\ stack # <<>>
    /\ Last(stack).step.t = "node"
    /\ graph[Last(stack).step.n].kind = kind

\* -------------------------------------------------------------- Executor
\* Executor.Use: the interceptors are appended to the chain.
UseAppend_Prepends(middlewares, mwf) == mwf \o middlewares

UseAppend(middlewares, mwf) == middlewares \o mwf

\* Use(mwf...) with interceptors of the set mws, the chain growing to at most
\* bound interceptors.
UseFrom(mws, bound) ==
    /\ pc = "idle"
    /\ \E mwf \in SeqsUpTo(mws, bound) :
          /\ mwf # <<>>
          /\ Len(e.middlewares) + Len(mwf) <= bound
          /\ e' = [e EXCEPT !.middlewares = UseAppend(e.middlewares, mwf)]
          /\ trace' = Append(trace, [ev |-> "use", act |-> 0, mwf |-> mwf])
    /\ UNCHANGED <<pc, stack, ret, acts, result>>
    /\ NewUnchanged

\* Use(mwf...) called by the user's code, a function or the Step of an
\* interceptor, that a running Exec is about to run or has entered.
UseInside ==
    /\ pc = "exec" /\ stack # <<>>
    /\ \/ Last(stack).step.t = "exec-fm"
       \/ Last(stack).step.t = "wrapped" /\ Last(stack).at = "start"
       \/ Last(stack).step.t = "node" /\ graph[Last(stack).step.n].kind = "StepFunc"
    /\ \E mwf \in SeqsUpTo(Interceptors, MwChain) :
          /\ mwf # <<>>
          /\ Len(e.middlewares) + Len(mwf) <= MwChain
          /\ e' = [e EXCEPT !.middlewares = UseAppend(e.middlewares, mwf)]
          /\ trace' = Append(trace, [ev |-> "use", act |-> 0, mwf |-> mwf])
    /\ UNCHANGED <<pc, stack, ret, acts, result>>
    /\ NewUnchanged

Use == UseFrom(Interceptors, MaxChain)
UseMw == UseFrom(MwInterceptors, MwChain)

ExecutorExecWith_Validates(ctxs) ==
    /\ pc = "idle"
    /\ \E state \in States, ctx \in ctxs :
          LET info == stepInfo(graph[e.start])
              s == apply(e.middlewares, Node(e.start), info)
              called == [ev |-> "call", act |-> 1, n |-> e.start, by |-> 0, slot |-> "start",
                         state |-> state, done |-> ctx.done, exec |-> e,
                         after |-> Cardinality({k \in DOMAIN others : others[k].pc = "done"})]
          IN  /\ stack' = <<Frame(s, withMiddlewares(ctx, e.middlewares), state, 1, TRUE)>>
              /\ trace' = trace \o <<called>> \o ApplyEvents(e.middlewares, info, 1)
    /\ pc' = "exec"
    /\ acts' = 1
    /\ ret' = Nil
    /\ UNCHANGED result
    /\ vlog' = Append(vlog, root)
    /\ UNCHANGED <<e, graph, root, visited, vstack, newErr, others>>

ExecutorExecWith_ConsumesChain(ctxs) ==
    /\ pc = "idle"
    /\ \E state \in States, ctx \in ctxs :
          LET info == stepInfo(graph[e.start])
              s == apply(e.middlewares, Node(e.start), info)
              called == [ev |-> "call", act |-> 1, n |-> e.start, by |-> 0, slot |-> "start",
                         state |-> state, done |-> ctx.done, exec |-> e,
                         after |-> Cardinality({k \in DOMAIN others : others[k].pc = "done"})]
          IN  /\ stack' = <<Frame(s, withMiddlewares(ctx, e.middlewares), state, 1, TRUE)>>
              /\ trace' = trace \o <<called>> \o ApplyEvents(e.middlewares, info, 1)
    /\ pc' = "exec"
    /\ acts' = 1
    /\ ret' = Nil
    /\ UNCHANGED result
    /\ e' = [e EXCEPT !.middlewares = <<>>]
    /\ NewUnchanged

\* Executor.Exec(ctx, state) with ctx one of ctxs: the start step is wrapped
\* with the chain, and runs with the chain in its context. The event of the
\* call notes whether ctx is done, the Executor as it is, and how many calls of
\* Exec have returned.
ExecutorExecWith(ctxs) ==
    /\ pc = "idle"
    /\ \E state \in States, ctx \in ctxs :
          LET info == stepInfo(graph[e.start])
              s == apply(e.middlewares, Node(e.start), info)
              called == [ev |-> "call", act |-> 1, n |-> e.start, by |-> 0, slot |-> "start",
                         state |-> state, done |-> ctx.done, exec |-> e,
                         after |-> Cardinality({k \in DOMAIN others : others[k].pc = "done"})]
          IN  /\ stack' = <<Frame(s, withMiddlewares(ctx, e.middlewares), state, 1, TRUE)>>
              /\ trace' = trace \o <<called>> \o ApplyEvents(e.middlewares, info, 1)
    /\ pc' = "exec"
    /\ acts' = 1
    /\ ret' = Nil
    /\ UNCHANGED result
    /\ UNCHANGED e
    /\ NewUnchanged

\* Exec with context.TODO(), and with any context.
ExecutorExec == ExecutorExecWith({Background})
ExecutorExecAny == ExecutorExecWith(Contexts)

\* What the running call of Exec holds for itself: its stack, the value
\* returned to the frame on top, its trace and its result.
Local == [pc |-> pc, stack |-> stack, ret |-> ret, acts |-> acts, trace |-> trace,
          result |-> result]

\* The running call is between two steps: it has returned, or the Exec of a
\* step of the graph is on top.
AtStepBoundary ==
    \/ pc = "done"
    \/ pc = "exec" /\ Last(stack).step.t = "node"

Switch_SharesRet ==
    /\ AtStepBoundary
    /\ \E i \in DOMAIN others :
          /\ others[i].pc # "done"
          /\ others' = [others EXCEPT ![i] = Local]
          /\ pc' = others[i].pc
          /\ stack' = others[i].stack
          /\ acts' = others[i].acts
          /\ trace' = others[i].trace
          /\ result' = others[i].result
    /\ UNCHANGED <<graph, root, visited, vstack, vlog, e, newErr, ret>>

\* Another call of Exec on the same Executor goes on, or starts, between two
\* steps of the running one: each call has its own stack and context, the
\* Executor and the graph are the same for all.
Switch ==
    /\ AtStepBoundary
    /\ \E i \in DOMAIN others :
          /\ others[i].pc # "done"
          /\ others' = [others EXCEPT ![i] = Local]
          /\ pc' = others[i].pc
          /\ stack' = others[i].stack
          /\ ret' = others[i].ret
          /\ acts' = others[i].acts
          /\ trace' = others[i].trace
          /\ result' = others[i].result
    /\ UNCHANGED <<graph, root, visited, vstack, vlog, e, newErr>>

\* Use before any call of Exec has started.
UseFirst ==
    /\ \A i \in DOMAIN others : others[i].pc = "idle"
    /\ Use

\* The start step's Exec called with context.TODO(), without the Executor.
StepExec ==
    /\ pc = "idle"
    /\ \E state \in States :
          /\ stack' = <<Frame(Node(root), Background, state, 1, TRUE)>>
          /\ trace' = <<[ev |-> "call", act |-> 1, n |-> root, by |-> 0, slot |-> "direct",
                         state |-> state]>>
    /\ pc' = "exec"
    /\ acts' = 1
    /\ ret' = Nil
    /\ UNCHANGED <<e, result>>
    /\ NewUnchanged

WrapExec_AttachesChain ==
    /\ pc = "idle"
    /\ \E state \in States, mwc \in SeqsUpTo(MwInterceptors, MwChain) :
          LET info == stepInfo(graph[root])
              s == apply(mwc, Node(root), info)
              wrapped == [ev |-> "wrap", act |-> 0, mwf |-> mwc]
              called == [ev |-> "call", act |-> 1, n |-> root, by |-> 0, slot |-> "wrap",
                         state |-> state]
          IN  /\ stack' = <<Frame(s, withMiddlewares(Background, mwc), state, 1, TRUE)>>
              /\ trace' = trace \o <<wrapped, called>> \o ApplyEvents(mwc, info, 1)
    /\ pc' = "exec"
    /\ acts' = 1
    /\ ret' = Nil
    /\ UNCHANGED <<e, result>>
    /\ NewUnchanged

\* MiddlewareChain.Wrap(s).Exec(context.TODO(), state): the chain is applied to
\* the step, and the context of the call carries no chain.
WrapExec ==
    /\ pc = "idle"
    /\ \E state \in States, mwc \in SeqsUpTo(MwInterceptors, MwChain) :
          LET info == stepInfo(graph[root])
              s == apply(mwc, Node(root), info)
              wrapped == [ev |-> "wrap", act |-> 0, mwf |-> mwc]
              called == [ev |-> "call", act |-> 1, n |-> root, by |-> 0, slot |-> "wrap",
                         state |-> state]
          IN  /\ stack' = <<Frame(s, Background, state, 1, TRUE)>>
              /\ trace' = trace \o <<wrapped, called>> \o ApplyEvents(mwc, info, 1)
    /\ pc' = "exec"
    /\ acts' = 1
    /\ ret' = Nil
    /\ UNCHANGED <<e, result>>
    /\ NewUnchanged

\* ------------------------------------------------------------ interceptors
\* The state an interceptor's Step passes to next: the logging interceptors
\* pass the state they got, the Skip interceptor one more indent.
nextState(mw, state) == IF mw = "Skip" THEN state + 1 ELSE state

wrappedExec_KeepsState(f, r) ==
    LET mw == f.step.mw
        started == IF mw \in Interceptors THEN "before"
                   ELSE IF f.step.info.CanSkip THEN "pass" ELSE "note"
    IN  IF f.at = "start"
        THEN DoCall([f EXCEPT !.at = "after"],
                    Frame(f.step.next, f.ctx, f.state, f.act, FALSE),
                    <<[ev |-> started, act |-> f.act, mw |-> mw]>>, 0)
        ELSE DoReturn(r, IF mw \in Interceptors
                         THEN <<[ev |-> "after", act |-> f.act, mw |-> mw, err |-> r]>>
                         ELSE <<>>)

\* The Step a logging interceptor returns: it notes that it starts, calls
\* next.Exec with the context and state it was given, notes that next is
\* back and returns what next returned.
\* The Step of the Skip interceptor calls next.Exec at once when info.CanSkip
\* is set ("pass"), and after writing info.Name otherwise ("note"), in both
\* cases with the indent of the state raised by one.
wrappedExec(f, r) ==
    LET mw == f.step.mw
        started == IF mw \in Interceptors THEN "before"
                   ELSE IF f.step.info.CanSkip THEN "pass" ELSE "note"
    IN  IF f.at = "start"
        THEN DoCall([f EXCEPT !.at = "after"],
                    Frame(f.step.next, f.ctx, nextState(mw, f.state), f.act, FALSE),
                    <<[ev |-> started, act |-> f.act, mw |-> mw]>>, 0)
        ELSE DoReturn(r, IF mw \in Interceptors
                         THEN <<[ev |-> "after", act |-> f.act, mw |-> mw, err |-> r]>>
                         ELSE <<>>)

InterceptorExec ==
    /\ pc = "exec" /\ stack # <<>>
    /\ Last(stack).step.t = "wrapped"
    /\ Last(stack).step.mw # "Stop"
    /\ Do(wrappedExec(Last(stack), ret))
    /\ UNCHANGED e
    /\ NewUnchanged

\* An interceptor whose Step decides by itself whether what it wraps runs: it
\* calls next.Exec with what it was given and returns what next returned, or
\* it returns nil, or an error of its own, without calling next.
StopDecisions == {"next", "nil", "err"}
ErrStop == [type |-> "ErrStop"]
stopExec(f, r, go) ==
    IF f.at = "start"
    THEN IF go = "next"
         THEN DoCall([f EXCEPT !.at = "after"],
                     Frame(f.step.next, f.ctx, f.state, f.act, FALSE),
                     <<[ev |-> "go", act |-> f.act, mw |-> f.step.mw]>>, 0)
         ELSE DoReturn(IF go = "err" THEN ErrStop ELSE Nil,
                       <<[ev |-> "stop", act |-> f.act, mw |-> f.step.mw,
                          err |-> IF go = "err" THEN ErrStop ELSE Nil]>>)
    ELSE DoReturn(r, <<>>)

StopExec ==
    /\ pc = "exec" /\ stack # <<>>
    /\ Last(stack).step.t = "wrapped"
    /\ Last(stack).step.mw = "Stop"
    /\ \E go \in (IF Last(stack).at = "start" THEN StopDecisions ELSE {"next"}) :
          Do(stopExec(Last(stack), ret, go))
    /\ UNCHANGED e
    /\ NewUnchanged

\* ------------------------------------------------------------------ leaves
\* StepFunc.Exec: the function runs and returns nil or an error of its own.
StepFuncExec ==
    /\ Running("StepFunc")
    /\ LET f == Last(stack)
       IN  \E out \in {Nil, LeafErr(f.act)} :
              Do(DoReturn(out, <<[ev |-> "run", act |-> f.act, n |-> f.step.n,
                                  state |-> f.state, resErr |-> Nil, out |-> out]>>))
    /\ UNCHANGED e
    /\ NewUnchanged

\* stepWithErr.Exec: the method value f.exec is wrapped with the chain of the
\* context (with CanSkip set) and executed.
stepWithErrExec(f, r) ==
    IF f.at = "start"
    THEN LET s == ExecFn(f.step.n)
             si == [Name |-> "stepWithErr.exec", CanSkip |-> TRUE]
         IN  IF f.ctx.hasChain
             THEN DoCall([f EXCEPT !.at = "tail"],
                         Frame(apply(f.ctx.chain, s, si), f.ctx, f.state, f.act, FALSE),
                         ApplyEvents(f.ctx.chain, si, f.act), 0)
             ELSE DoCall([f EXCEPT !.at = "tail"], Frame(s, f.ctx, f.state, f.act, FALSE),
                         <<>>, 0)
    ELSE DoReturn(r, <<>>)

StepWithErrExec ==
    /\ Running("stepWithErr")
    /\ Do(stepWithErrExec(Last(stack), ret))
    /\ UNCHANGED e
    /\ NewUnchanged

\* stepWithErr.exec: the function runs with the error found in the context.
StepWithErrFn ==
    /\ pc = "exec" /\ stack # <<>>
    /\ Last(stack).step.t = "exec-fm"
    /\ LET f == Last(stack)
       IN  \E out \in {Nil, LeafErr(f.act)} :
              Do(DoReturn(out, <<[ev |-> "run", act |-> f.act, n |-> f.step.n,
                                  state |-> f.state, resErr |-> resultErrFromContext(f.ctx),
                                  out |-> out]>>))
    /\ UNCHANGED e
    /\ NewUnchanged

\* -------------------------------------------------------------- composites
condition_NotNegated(c, sel) == sel

\* The Selector of an If/IfElse applied to the state: sel is what the user's
\* predicate returns, the closure made by IfNot negates it.
condition(c, sel) == IF c.neg THEN ~sel ELSE sel

\* ifStep.Exec
ifStepExec(f, s, sel, r) ==
    IF f.at = "start"
    THEN LET evaluated == <<[ev |-> "cond", act |-> f.act, sel |-> sel]>>
         IN  IF condition(s.condition, sel)
             THEN execWithContext(f, [f EXCEPT !.at = "tail"], f.ctx, s.thenStep, "thenStep",
                                  evaluated)
             ELSE DoReturn(Nil, evaluated)
    ELSE DoReturn(r, <<>>)

IfStepExec ==
    /\ Running("ifStep")
    /\ LET f == Last(stack)
       IN  \E sel \in (IF f.at = "start" THEN BOOLEAN ELSE {TRUE}) :
              Do(ifStepExec(f, graph[f.step.n], sel, ret))
    /\ UNCHANGED e
    /\ NewUnchanged

ifElseStepExec_AlwaysThen(f, s, sel, r) ==
    IF f.at = "start"
    THEN execWithContext(f, [f EXCEPT !.at = "tail"], f.ctx, s.thenStep, "thenStep",
                         <<[ev |-> "cond", act |-> f.act, sel |-> sel]>>)
    ELSE DoReturn(r, <<>>)

\* ifElseStep.Exec
ifElseStepExec(f, s, sel, r) ==
    IF f.at = "start"
    THEN LET evaluated == <<[ev |-> "cond", act |-> f.act, sel |-> sel]>>
         IN  IF condition(s.condition, sel)
             THEN execWithContext(f, [f EXCEPT !.at = "tail"], f.ctx, s.thenStep, "thenStep",
                                  evaluated)
             ELSE execWithContext(f, [f EXCEPT !.at = "tail"], f.ctx, s.elseStep, "elseStep",
                                  evaluated)
    ELSE DoReturn(r, <<>>)

IfElseStepExec ==
    /\ Running("ifElseStep")
    /\ LET f == Last(stack)
       IN  \E sel \in (IF f.at = "start" THEN BOOLEAN ELSE {TRUE}) :
              Do(ifElseStepExec(f, graph[f.step.n], sel, ret))
    /\ UNCHANGED e
    /\ NewUnchanged

seriesStepExec_WrapsAhead(f, s, r) ==
    IF f.i > 0 /\ r # Nil THEN DoReturn(r, <<>>)
    ELSE IF f.i = Len(s.steps) THEN DoReturn(Nil, <<>>)
    ELSE execWithContext(f, [f EXCEPT !.i = f.i + 1], f.ctx, s.steps[f.i + 1], f.i + 1,
                         IF f.i = 0
                         THEN ApplyEvents(f.ctx.chain,
                                          stepInfo(graph[s.steps[Len(s.steps)]]), 0)
                         ELSE <<>>)

seriesStepExec_ChecksContext(f, s, r) ==
    IF f.ctx.done THEN DoReturn(Canceled, <<>>)
    ELSE IF f.i > 0 /\ r # Nil THEN DoReturn(r, <<>>)
    ELSE IF f.i = Len(s.steps) THEN DoReturn(Nil, <<>>)
    ELSE execWithContext(f, [f EXCEPT !.i = f.i + 1], f.ctx, s.steps[f.i + 1], f.i + 1, <<>>)

seriesStepExec_IgnoresError(f, s, r) ==
    IF f.i = Len(s.steps) THEN DoReturn(r, <<>>)
    ELSE execWithContext(f, [f EXCEPT !.i = f.i + 1], f.ctx, s.steps[f.i + 1], f.i + 1, <<>>)

\* seriesStep.Exec: f.i children were executed; r is what the last one returned.
seriesStepExec(f, s, r) ==
    IF f.i > 0 /\ r # Nil THEN DoReturn(r, <<>>)
    ELSE IF f.i = Len(s.steps) THEN DoReturn(Nil, <<>>)
    ELSE execWithContext(f, [f EXCEPT !.i = f.i + 1], f.ctx, s.steps[f.i + 1], f.i + 1, <<>>)

SeriesStepExec ==
    /\ Running("seriesStep")
    /\ Do(seriesStepExec(Last(stack), graph[Last(stack).step.n], ret))
    /\ UNCHANGED e
    /\ NewUnchanged

continueStepExec_StopsAtError(f, s, r) ==
    IF f.i > 0 /\ r # Nil
    THEN DoReturn(Join(Nil, Errorf(StepName(graph[s.steps[f.i]]), r)), <<>>)
    ELSE IF f.i = Len(s.steps) THEN DoReturn(Nil, <<>>)
    ELSE execWithContext(f, [f EXCEPT !.i = f.i + 1], f.ctx, s.steps[f.i + 1], f.i + 1, <<>>)

\* continueStep.Exec: f.i children were executed, r is what the last one
\* returned and f.err the errors joined so far.
continueStepExec(f, s, r) ==
    LET err == IF f.i > 0 /\ r # Nil
               THEN Join(f.err, Errorf(StepName(graph[s.steps[f.i]]), r))
               ELSE f.err
    IN  IF f.i = Len(s.steps) THEN DoReturn(err, <<>>)
        ELSE execWithContext(f, [f EXCEPT !.i = f.i + 1, !.err = err], f.ctx,
                             s.steps[f.i + 1], f.i + 1, <<>>)

ContinueStepExec ==
    /\ Running("continueStep")
    /\ Do(continueStepExec(Last(stack), graph[Last(stack).step.n], ret))
    /\ UNCHANGED e
    /\ NewUnchanged

\* selectStep of the failure handlers. holds is the set of positions whose
\* FailureSelector returns true for (ctx, err); a selection is the step
\* selected (NoStep: nil), the position of the branch that selected it (0:
\* none) and the selectors evaluated on the way, in order.
branchSelectStep(b, j, holds) ==
    IF b.kind = "failureBranch"
    THEN [step |-> IF j \in holds THEN b.step ELSE NoStep,
          by |-> IF j \in holds THEN j ELSE 0,
          evals |-> <<[branch |-> j, sel |-> (j \in holds)]>>]
    ELSE [step |-> b.step, by |-> j, evals |-> <<>>]

\* The selectors at positions 1..k, as evaluated for holds.
EvalsUpTo(bs, k, holds) ==
    SelectSeq([j \in 1 .. k |-> [branch |-> j, sel |-> (j \in holds)]],
              LAMBDA x : bs[x.branch].kind = "failureBranch")

multiSelectStep_LastMatch(bs, j, holds, evals) ==
    LET ms == {k \in j .. Len(bs) : branchSelectStep(bs[k], k, holds).step # NoStep}
        m == CHOOSE k \in ms : \A x \in ms : x <= k
    IN  IF ms = {} THEN [step |-> NoStep, by |-> 0, evals |-> EvalsUpTo(bs, Len(bs), holds)]
        ELSE [step |-> bs[m].step, by |-> m, evals |-> EvalsUpTo(bs, m, holds)]

\* multiFailureHandler.selectStep: the loop over the branches from position j
\* on, evals being the selectors evaluated before.
RECURSIVE multiSelectStep(_, _, _, _)
multiSelectStep(bs, j, holds, evals) ==
    IF j > Len(bs) THEN [step |-> NoStep, by |-> 0, evals |-> evals]
    ELSE LET one == branchSelectStep(bs[j], j, holds)
         IN  IF one.step # NoStep
             THEN [step |-> one.step, by |-> one.by, evals |-> evals \o one.evals]
             ELSE multiSelectStep(bs, j + 1, holds, evals \o one.evals)

selectStep(h, holds) ==
    IF h.kind = "multiFailureHandler" THEN multiSelectStep(h.branches, 1, holds, <<>>)
    ELSE branchSelectStep(h, 1, holds)

\* The positions of a handler that hold a FailureSelector.
SelectorsOf(h) ==
    IF h.kind = "multiFailureHandler"
    THEN {j \in DOMAIN h.branches : h.branches[j].kind = "failureBranch"}
    ELSE IF h.kind = "failureBranch" THEN {1} ELSE {}

\* The outcomes of selectStep, over what the selectors may return.
Selections(h) ==
    {[step |-> selectStep(h, holds).step, by |-> selectStep(h, holds).by,
      evals |-> selectStep(h, holds).evals, holds |-> holds] :
        holds \in SUBSET SelectorsOf(h)}

handleErr_NilWhenUnhandled(f, s, err, choice) ==
    IF s.failureHandler = Nil THEN DoReturn(Nil, <<>>)
    ELSE LET selected == [ev |-> "select", act |-> f.act, err |-> err, evals |-> choice.evals,
                          step |-> choice.step, by |-> choice.by, holds |-> choice.holds]
         IN  IF choice.step # NoStep
             THEN execWithContext(f, [f EXCEPT !.at = "tail"], resultErrToContext(f.ctx, err),
                                  choice.step, "failure", <<selected>>)
             ELSE DoReturn(Nil, <<selected>>)

handleErr_MutatesContext(f, s, err, choice) ==
    IF s.failureHandler = Nil THEN DoReturn(err, <<>>)
    ELSE LET selected == [ev |-> "select", act |-> f.act, err |-> err, evals |-> choice.evals,
                          step |-> choice.step, by |-> choice.by, holds |-> choice.holds]
             g == [f EXCEPT !.ctx = resultErrToContext(f.ctx, err)]
         IN  IF choice.step # NoStep
             THEN execWithContext(g, [g EXCEPT !.at = "tail"], g.ctx, choice.step, "failure",
                                  <<selected>>)
             ELSE DoReturn(err, <<selected>>)

\* resultStep.handleErr
handleErr(f, s, err, choice) ==
    IF s.failureHandler = Nil THEN DoReturn(err, <<>>)
    ELSE LET selected == [ev |-> "select", act |-> f.act, err |-> err, evals |-> choice.evals,
                          step |-> choice.step, by |-> choice.by, holds |-> choice.holds]
         IN  IF choice.step # NoStep
             THEN execWithContext(f, [f EXCEPT !.at = "tail"], resultErrToContext(f.ctx, err),
                                  choice.step, "failure", <<selected>>)
             ELSE DoReturn(err, <<selected>>)

resultStepExec_HandlesSuccessError(f, s, r, choice) ==
    IF f.at = "start"
    THEN execWithContext(f, [f EXCEPT !.at = "main"], f.ctx, s.mainStep, "mainStep", <<>>)
    ELSE IF f.at = "main"
    THEN IF r # Nil
         THEN handleErr(f, s, r, choice)
         ELSE execWithContext(f, [f EXCEPT !.at = "success"], f.ctx, s.successStep,
                              "successStep", <<>>)
    ELSE IF f.at = "success" /\ r # Nil
    THEN handleErr(f, s, r,
                   IF s.failureHandler = Nil THEN choice
                   ELSE CHOOSE c \in Selections(s.failureHandler) :
                            c.holds = SelectorsOf(s.failureHandler))
    ELSE DoReturn(r, <<>>)

resultStepExec_SkipsSuccess(f, s, r, choice) ==
    IF f.at = "start"
    THEN execWithContext(f, [f EXCEPT !.at = "main"], f.ctx, s.mainStep, "mainStep", <<>>)
    ELSE IF f.at = "main" /\ r # Nil THEN handleErr(f, s, r, choice)
    ELSE DoReturn(r, <<>>)

resultStepExec_KeepsMainError(f, s, r, choice) ==
    IF f.at = "start"
    THEN execWithContext(f, [f EXCEPT !.at = "main"], f.ctx, s.mainStep, "mainStep", <<>>)
    ELSE IF f.at = "main"
    THEN IF r # Nil
         THEN handleErr([f EXCEPT !.err = r], s, r, choice)
         ELSE execWithContext(f, [f EXCEPT !.at = "tail"], f.ctx, s.successStep, "successStep",
                              <<>>)
    ELSE DoReturn(IF f.err # Nil THEN f.err ELSE r, <<>>)

\* resultStep.Exec
resultStepExec(f, s, r, choice) ==
    IF f.at = "start"
    THEN execWithContext(f, [f EXCEPT !.at = "main"], f.ctx, s.mainStep, "mainStep", <<>>)
    ELSE IF f.at = "main"
    THEN IF r # Nil
         THEN handleErr(f, s, r, choice)
         ELSE execWithContext(f, [f EXCEPT !.at = "tail"], f.ctx, s.successStep, "successStep",
                              <<>>)
    ELSE DoReturn(r, <<>>)

ResultStepExec ==
    /\ Running("resultStep")
    /\ LET f == Last(stack)
           s == graph[f.step.n]
       IN  \E choice \in (IF f.at = "main" /\ ret # Nil /\ s.failureHandler # Nil
                          THEN Selections(s.failureHandler)
                          ELSE {[step |-> NoStep, evals |-> <<>>]}) :
              Do(resultStepExec(f, s, ret, choice))
    /\ UNCHANGED e
    /\ NewUnchanged

\* ------------------------------------------------------ the specification
ExecLeaves == {NewStep("f"), NewResultErrStep("h")}
\* The graphs of k steps that are executed.
ExecGraphs(k) == Arenas(k, ExecLeaves, "exec", ExecChildren)

Init == \E g \in ExecGraphs(ExecNodes) : StartNew(g, ExecNodes) /\ NoStrayStep
Next ==
    \/ Visit \/ Descend \/ TailReturn \/ Leave
    \/ Use \/ ExecutorExec \/ StepExec
    \/ InterceptorExec
    \/ StepFuncExec \/ StepWithErrExec \/ StepWithErrFn
    \/ IfStepExec \/ IfElseStepExec \/ SeriesStepExec \/ ContinueStepExec \/ ResultStepExec
Spec == Init /\ [][Next]_vars

\* ------------------------------------------- graphs run under a chain
\* Graphs of MwNodes steps, run by an Executor with up to MwChain interceptors.
InitMw == \E g \in ExecGraphs(MwNodes) : StartNew(g, MwNodes) /\ NoStrayStep
NextMw ==
    \/ Visit \/ Descend \/ TailReturn \/ Leave
    \/ UseMw \/ ExecutorExec
    \/ InterceptorExec
    \/ StepFuncExec \/ StepWithErrExec \/ StepWithErrFn
    \/ IfStepExec \/ IfElseStepExec \/ SeriesStepExec \/ ContinueStepExec \/ ResultStepExec
SpecMw == InitMw /\ [][NextMw]_vars

\* -------------------------------------------------- several calls of Exec
\* Graphs of ConcNodes steps under a chain of up to MaxChain interceptors, run
\* by MaxCalls calls of Exec on the one Executor, with any context, one after
\* the other or interleaved at any step.
InitConc == \E g \in ExecGraphs(ConcNodes) : StartNewWith(g, ConcNodes, MaxCalls) /\ NoStrayStep
NextConc ==
    \/ Visit \/ Descend \/ TailReturn \/ Leave
    \/ UseFirst \/ ExecutorExecAny \/ Switch
    \/ InterceptorExec
    \/ StepFuncExec \/ StepWithErrExec \/ StepWithErrFn
    \/ IfStepExec \/ IfElseStepExec \/ SeriesStepExec \/ ContinueStepExec \/ ResultStepExec
SpecConc == InitConc /\ [][NextConc]_vars

\* ------------------------------- interceptors that may not call next
\* The same graphs under a chain of up to ShortChain interceptors, each the
\* logging interceptor L1 or one that decides whether to call next.
UseShort == UseFrom({"L1", "Stop"}, ShortChain)
NextShort ==
    \/ Visit \/ Descend \/ TailReturn \/ Leave
    \/ UseShort \/ ExecutorExec
    \/ InterceptorExec \/ StopExec
    \/ StepFuncExec \/ StepWithErrExec \/ StepWithErrFn
    \/ IfStepExec \/ IfElseStepExec \/ SeriesStepExec \/ ContinueStepExec \/ ResultStepExec
SpecShort == InitMw /\ [][NextShort]_vars

\* ------------------------------------- with an Executor and without one
\* The same graphs run twice, one call after the other has returned, by
\* Executor.Exec under up to MwChain logging interceptors or by the start
\* step's own Exec.
UseLoggers ==
    /\ \A i \in DOMAIN others : others[i].pc = "idle"
    /\ UseFrom(Interceptors, MwChain)
SwitchWhenDone == pc = "done" /\ Switch
NextDirect ==
    \/ Visit \/ Descend \/ TailReturn \/ Leave
    \/ UseLoggers \/ ExecutorExec \/ StepExec \/ SwitchWhenDone
    \/ InterceptorExec
    \/ StepFuncExec \/ StepWithErrExec \/ StepWithErrFn
    \/ IfStepExec \/ IfElseStepExec \/ SeriesStepExec \/ ContinueStepExec \/ ResultStepExec
SpecDirect == InitConc /\ [][NextDirect]_vars

\* ----------------------------------------------- Use during an Exec
\* The same graphs run by two calls of Exec, one after the other has
\* returned, with Use called before the first and by the user's code during
\* either, the chain growing to at most MwChain logging interceptors.
NextUse ==
    \/ Visit \/ Descend \/ TailReturn \/ Leave
    \/ UseLoggers \/ UseInside \/ ExecutorExec \/ SwitchWhenDone
    \/ InterceptorExec
    \/ StepFuncExec \/ StepWithErrExec \/ StepWithErrFn
    \/ IfStepExec \/ IfElseStepExec \/ SeriesStepExec \/ ContinueStepExec \/ ResultStepExec
SpecUse == InitConc /\ [][NextUse]_vars

\* ------------------------- failure steps that lead back to their Result
\* Graphs of LoopNodes steps, and those graphs with the step of a failure
\* branch set to any step of the graph after the Result was built, the Result
\* itself included. New checks each one, and an accepted one is executed; a
\* composite step goes on while fewer than MaxExecs executions have started.
LoopNodes == 2
MaxExecs == 5
Rebranched(G) ==
    {[g EXCEPT ![n].failureHandler.branches[1].step = m] :
        <<g, n, m>> \in {<<g, n, m>> \in G \X (1 .. LoopNodes) \X (1 .. LoopNodes) :
                            /\ g[n].kind = "resultStep"
                            /\ g[n].failureHandler # Nil
                            /\ g[n].failureHandler.kind = "multiFailureHandler"}}
LoopGraphs(k) == ExecGraphs(k) \cup Rebranched(ExecGraphs(k))
InitLoop == \E g \in LoopGraphs(LoopNodes) : StartNew(g, LoopNodes) /\ NoStrayStep
ExecsLeft == acts < MaxExecs
IfStepExecLoop == ExecsLeft /\ IfStepExec
IfElseStepExecLoop == ExecsLeft /\ IfElseStepExec
SeriesStepExecLoop == ExecsLeft /\ SeriesStepExec
ContinueStepExecLoop == ExecsLeft /\ ContinueStepExec
ResultStepExecLoop == ExecsLeft /\ ResultStepExec
NextLoop ==
    \/ Visit \/ Descend \/ TailReturn \/ Leave
    \/ ExecutorExec
    \/ StepFuncExec \/ StepWithErrExec \/ StepWithErrFn
    \/ IfStepExecLoop \/ IfElseStepExecLoop \/ SeriesStepExecLoop \/ ContinueStepExecLoop
    \/ ResultStepExecLoop
SpecLoop == InitLoop /\ [][NextLoop]_vars

\* The same graphs, their start step wrapped with a chain of up to MwChain
\* interceptors by MiddlewareChain.Wrap and run without an Executor's chain.
NextWrap ==
    \/ Visit \/ Descend \/ TailReturn \/ Leave
    \/ WrapExec
    \/ InterceptorExec
    \/ StepFuncExec \/ StepWithErrExec \/ StepWithErrFn
    \/ IfStepExec \/ IfElseStepExec \/ SeriesStepExec \/ ContinueStepExec \/ ResultStepExec
SpecWrap == InitMw /\ [][NextWrap]_vars

\* ------------------------------------- Results with multi-branch handlers
\* A Result whose failure handler is HandleMultiFailure of up to MaxBranches
\* branches and default branches; the branch at position j has a StepFunc of
\* its own (step j) or shares that of the first branch; main and success are
\* two more StepFuncs.
BranchChoices == {NewBranch("s", c) : c \in 1 .. MaxBranches} \cup
                 {DefaultBranch(c) : c \in 1 .. MaxBranches}
BranchGraphs ==
    {[n \in 1 .. (MaxBranches + 3) |->
         IF n = MaxBranches + 3
         THEN Result(MaxBranches + 1, MaxBranches + 2, HandleMultiFailure(bs))
         ELSE NewStep("f")] :
        bs \in {cs \in SeqsUpTo(BranchChoices, MaxBranches) :
                   \A j \in DOMAIN cs : cs[j].step \in {1, j}}}

InitBranches == \E g \in BranchGraphs : StartNew(g, MaxBranches + 3)
NextBranches ==
    \/ Visit \/ Descend \/ Leave
    \/ ExecutorExec \/ StepExec
    \/ StepFuncExec \/ ResultStepExec
SpecBranches == InitBranches /\ [][NextBranches]_vars

\* ------------------------------------------------------------ the claims
NewReturned == pc \in {"idle", "invalid"}
\* C1: New succeeds and returns an Executor for every graph in which no step
\* is reachable from itself, shared steps of any kind included.
C1_AcyclicAccepted ==
    (NewReturned /\ ~HasCycle("all")) => (newErr = Nil /\ e # Nil)

\* C2: when a step is reachable from itself through the children accessors,
\* New fails with an ErrInvalid wrapping an ErrCycle that names a step which
\* is reachable from itself.
C2_CycleNamed ==
    (NewReturned /\ HasCycle("accessors")) =>
        /\ newErr # Nil
        /\ newErr.type = "ErrInvalid"
        /\ newErr.err.type = "ErrCycle"
        /\ \E n \in FromRoot("accessors") :
              OnCycle(n, "accessors") /\ newErr.err.stepName = StepName(graph[n])

\* C3: New fails if and only if the graph has a cycle, the steps a Result's
\* failure handler can select counting as children of the Result.
C3_FailsIffCycle ==
    NewReturned => ((newErr # Nil) <=> HasCycle("all"))

\* C4: New returns either a nil Executor with an error, or an Executor holding
\* the given root and an empty chain with a nil error.
C4_ExecutorXorError ==
    /\ pc = "new" => (e = Nil /\ newErr = Nil)
    /\ pc = "invalid" => (e = Nil /\ newErr # Nil)
    /\ pc = "idle" => (newErr = Nil /\ e # Nil /\ e.start = root /\ e.middlewares = <<>>)

C4_Witness ==
    pc = "invalid" /\ newErr # Nil /\ newErr.type = "ErrInvalid" /\ HasCycle("accessors")

\* ---------------------------------------------------- reading the trace
\* trace holds, in the order they happen:
\*   use    Executor.Use is called with the interceptors mwf
\*   call   the caller `by` starts execution `act` of step n (execWithContext,
\*          or Executor.Exec with by = 0) for its child slot
\*   apply  the chain's apply calls interceptor mw with info
\*   before, after   interceptor mw's Step starts, and gets next's result
\*   pass, note      the Skip interceptor's Step starts, for a step that can be
\*                   skipped and for one that cannot
\*   cond, select    a Selector, or the failure handler's selectStep, is evaluated
\*   run    a leaf's function runs and returns out
\*   exit   the step's own Exec returns err
\*   ret    the caller of execution act gets err back
Executions == {trace[i].act : i \in {j \in DOMAIN trace : trace[j].ev = "call"}}
At(ev, a) == CHOOSE i \in DOMAIN trace : trace[i].ev = ev /\ trace[i].act = a
Has(ev, a) == \E i \in DOMAIN trace : trace[i].ev = ev /\ trace[i].act = a
Count(ev, a) == Cardinality({i \in DOMAIN trace : trace[i].ev = ev /\ trace[i].act = a})
StepOf(a) == graph[trace[At("call", a)].n]
OfKind(kind) == {a \in Executions : StepOf(a).kind = kind}
\* The executions a started for its children, in the order it started them.
CallsBy(a) == SelectSeq(trace, LAMBDA x : x.ev = "call" /\ x.by = a)
Returned(a) == Has("ret", a)
RetErr(a) == trace[At("ret", a)].err
Exited(a) == Has("exit", a)
ExitErr(a) == trace[At("exit", a)].err

\* Each child execution is over before the next one starts.
OneAtATime(cs) ==
    \A k \in 1 .. (Len(cs) - 1) :
        Returned(cs[k].act) /\ At("ret", cs[k].act) < At("call", cs[k + 1].act)

\* The children of execution a were started in list order, each at most once.
InListOrder(a, steps) ==
    LET cs == CallsBy(a)
    IN  /\ Len(cs) <= Len(steps)
        /\ \A k \in 1 .. Len(cs) : cs[k].n = steps[k] /\ cs[k].slot = k
        /\ OneAtATime(cs)

\* C5: Series runs its children in list order, each at most once, no child
\* after one that returned an error; it returns that child's error as it is,
\* or nil after all children ran and returned nil.
C5_SeriesStopsAtFirstError ==
    \A a \in OfKind("seriesStep") :
        LET steps == StepOf(a).steps
            cs == CallsBy(a)
        IN  /\ InListOrder(a, steps)
            /\ \A k \in 1 .. (Len(cs) - 1) : RetErr(cs[k].act) = Nil
            /\ Exited(a) =>
                  /\ \A k \in 1 .. Len(cs) : Returned(cs[k].act)
                  /\ IF Len(cs) > 0 /\ RetErr(cs[Len(cs)].act) # Nil
                     THEN ExitErr(a) = RetErr(cs[Len(cs)].act)
                     ELSE Len(cs) = Len(steps) /\ ExitErr(a) = Nil

\* A Series of several children whose first child failed has returned.
C5_Witness ==
    \E a \in OfKind("seriesStep") :
        /\ Len(StepOf(a).steps) >= 2
        /\ Exited(a)
        /\ Len(CallsBy(a)) = 1
        /\ ExitErr(a) # Nil
        /\ ExitErr(a) = RetErr(CallsBy(a)[1].act)

\* C6: Continue runs every child exactly once, in list order, whatever the
\* children return.
C6_ContinueRunsAll ==
    \A a \in OfKind("continueStep") :
        LET steps == StepOf(a).steps
            cs == CallsBy(a)
        IN  /\ InListOrder(a, steps)
            /\ Exited(a) => (Len(cs) = Len(steps) /\ \A k \in 1 .. Len(cs) : Returned(cs[k].act))

\* A Continue whose first child failed has run its second child and returned.
C6_Witness ==
    \E a \in OfKind("continueStep") :
        /\ Exited(a)
        /\ Len(CallsBy(a)) >= 2
        /\ RetErr(CallsBy(a)[1].act) # Nil

\* The entries of a combined error, in the order errors.Join keeps them.
RECURSIVE Flatten(_)
Flatten(err) ==
    IF err = Nil THEN <<>>
    ELSE IF err.type = "joinError"
    THEN IF Len(err.errs) = 1 THEN Flatten(err.errs[1])
         ELSE Flatten(err.errs[1]) \o Flatten(err.errs[2])
    ELSE <<err>>

\* errors.Is(err, target)
RECURSIVE Is(_, _)
Is(err, target) ==
    \/ err = target
    \/ err # Nil /\ err.type = "wrapError" /\ Is(err.err, target)
    \/ err # Nil /\ err.type = "joinError" /\ \E i \in DOMAIN err.errs : Is(err.errs[i], target)

\* C7: Continue returns nil iff every child returned nil; otherwise its error
\* has, in child order, one entry per failing child, pairing the child's
\* display identifier with the child's error.
C7_ContinueJoinsErrors ==
    \A a \in OfKind("continueStep") :
        Exited(a) =>
            LET cs == CallsBy(a)
                failed == SelectSeq(cs, LAMBDA c : RetErr(c.act) # Nil)
                entries == Flatten(ExitErr(a))
            IN  /\ (ExitErr(a) = Nil) <=> (\A k \in 1 .. Len(cs) : RetErr(cs[k].act) = Nil)
                /\ Len(entries) = Len(failed)
                /\ \A k \in 1 .. Len(failed) :
                      /\ entries[k].type = "wrapError"
                      /\ entries[k].step = StepName(graph[failed[k].n])
                      /\ entries[k].err = RetErr(failed[k].act)
                      /\ Is(ExitErr(a), RetErr(failed[k].act))

\* A Continue has returned the errors of two failing children.
C7_Witness ==
    \E a \in OfKind("continueStep") :
        /\ Exited(a)
        /\ Len(Flatten(ExitErr(a))) = 2
        /\ Flatten(ExitErr(a))[1].err # Flatten(ExitErr(a))[2].err

\* C8: If evaluates its predicate once; when it holds (for IfNot: when it does
\* not hold) it runs thenStep once and returns what thenStep returned,
\* otherwise it runs nothing and returns nil.
C8_IfRunsThenIffPredicate ==
    \A a \in OfKind("ifStep") :
        LET s == StepOf(a)
            cs == CallsBy(a)
            sel == trace[At("cond", a)].sel
            taken == IF s.condition.neg THEN sel = FALSE ELSE sel = TRUE
        IN  /\ Count("cond", a) <= 1
            /\ Len(cs) <= 1
            /\ cs # <<>> => (Has("cond", a) /\ At("cond", a) < At("call", cs[1].act))
            /\ Has("cond", a) =>
                  IF taken
                  THEN /\ Len(cs) = 1 /\ cs[1].n = s.thenStep
                       /\ Exited(a) => (Returned(cs[1].act) /\ ExitErr(a) = RetErr(cs[1].act))
                  ELSE cs = <<>> /\ Exited(a) /\ ExitErr(a) = Nil
            /\ Exited(a) => Count("cond", a) = 1

\* An IfNot whose predicate was false has run its child, which failed.
C8_Witness ==
    \E a \in OfKind("ifStep") :
        /\ StepOf(a).condition.neg
        /\ Exited(a)
        /\ trace[At("cond", a)].sel = FALSE
        /\ Len(CallsBy(a)) = 1
        /\ ExitErr(a) # Nil

\* C9: IfElse runs exactly one of its children, once: thenStep when the
\* predicate holds, elseStep when it does not, and returns what it returned.
C9_IfElseRunsOneBranch ==
    \A a \in OfKind("ifElseStep") :
        LET s == StepOf(a)
            cs == CallsBy(a)
            sel == trace[At("cond", a)].sel
        IN  /\ Count("cond", a) <= 1
            /\ Len(cs) <= 1
            /\ Has("cond", a) =>
                  /\ Len(cs) = 1
                  /\ cs[1].n = (IF sel THEN s.thenStep ELSE s.elseStep)
                  /\ cs[1].slot = (IF sel THEN "thenStep" ELSE "elseStep")
            /\ Exited(a) =>
                  /\ Len(cs) = 1
                  /\ Returned(cs[1].act)
                  /\ ExitErr(a) = RetErr(cs[1].act)

\* An IfElse with two different children took its else branch, which failed.
C9_Witness ==
    \E a \in OfKind("ifElseStep") :
        /\ StepOf(a).thenStep # StepOf(a).elseStep
        /\ Exited(a)
        /\ trace[At("cond", a)].sel = FALSE
        /\ CallsBy(a)[1].n = StepOf(a).elseStep
        /\ ExitErr(a) # Nil

\* C10: Result runs main first and once; when main returns nil it runs success
\* once and returns what success returned, the failure handler is not
\* consulted and no failure step runs.
C10_ResultSuccessPath ==
    \A a \in OfKind("resultStep") :
        LET s == StepOf(a)
            cs == CallsBy(a)
        IN  /\ Exited(a) => cs # <<>>
            /\ cs # <<>> => (cs[1].n = s.mainStep /\ cs[1].slot = "mainStep")
            /\ \A k \in 2 .. Len(cs) : cs[k].slot # "mainStep"
            /\ OneAtATime(cs)
            /\ (cs # <<>> /\ Returned(cs[1].act) /\ RetErr(cs[1].act) = Nil) =>
                  /\ ~Has("select", a)
                  /\ Len(cs) <= 2
                  /\ Len(cs) = 2 => (cs[2].n = s.successStep /\ cs[2].slot = "successStep")
                  /\ Exited(a) =>
                        (Len(cs) = 2 /\ Returned(cs[2].act) /\ ExitErr(a) = RetErr(cs[2].act))

\* A Result with a failure handler has run main and then success, which failed.
C10_Witness ==
    \E a \in OfKind("resultStep") :
        /\ StepOf(a).failureHandler # Nil
        /\ Exited(a)
        /\ Len(CallsBy(a)) = 2
        /\ RetErr(CallsBy(a)[1].act) = Nil
        /\ ExitErr(a) # Nil

\* The main child of Result execution a has returned an error.
MainFailed(a) ==
    LET cs == CallsBy(a)
    IN  cs # <<>> /\ Returned(cs[1].act) /\ RetErr(cs[1].act) # Nil
MainErr(a) == RetErr(CallsBy(a)[1].act)
Selected(a) == trace[At("select", a)]

\* C11: when main returns error e and a failure handler is present, the
\* handler is consulted once, with e, and success never runs; a step the
\* handler selects runs once and what it returns (nil or an error) is what the
\* Result returns, e being neither returned nor joined.
C11_HandlerStepOutcome ==
    \A a \in OfKind("resultStep") :
        LET cs == CallsBy(a)
        IN  (MainFailed(a) /\ StepOf(a).failureHandler # Nil) =>
                /\ Count("select", a) <= 1
                /\ Has("select", a) => Selected(a).err = MainErr(a)
                /\ Len(cs) <= 2
                /\ \A k \in 2 .. Len(cs) : cs[k].slot = "failure"
                /\ Len(cs) = 2 =>
                      /\ Has("select", a)
                      /\ At("select", a) < At("call", cs[2].act)
                      /\ cs[2].n = Selected(a).step
                /\ (Has("select", a) /\ Selected(a).step # NoStep) => Len(cs) = 2
                /\ Exited(a) =>
                      /\ Count("select", a) = 1
                      /\ Selected(a).step # NoStep =>
                            (Returned(cs[2].act) /\ ExitErr(a) = RetErr(cs[2].act))

\* A Result whose main failed has run the step its handler selected, which
\* returned nil, and has returned nil.
C11_Witness ==
    \E a \in OfKind("resultStep") :
        /\ MainFailed(a)
        /\ Exited(a)
        /\ Len(CallsBy(a)) = 2
        /\ RetErr(CallsBy(a)[2].act) = Nil
        /\ ExitErr(a) = Nil

\* C12: when main returns error e and there is no failure handler, or the
\* handler selects no step, the Result returns e itself and runs neither
\* success nor a branch step.
C12_UnhandledErrorReturned ==
    \A a \in OfKind("resultStep") :
        LET unhandled == \/ StepOf(a).failureHandler = Nil
                         \/ Has("select", a) /\ Selected(a).step = NoStep
        IN  (MainFailed(a) /\ unhandled) =>
                /\ Len(CallsBy(a)) = 1
                /\ StepOf(a).failureHandler = Nil => ~Has("select", a)
                /\ Exited(a) => ExitErr(a) = MainErr(a)

\* A Result whose handler selected no step has returned the error of main.
C12_Witness ==
    \E a \in OfKind("resultStep") :
        /\ MainFailed(a)
        /\ Has("select", a) /\ Selected(a).step = NoStep
        /\ Exited(a)
        /\ ExitErr(a) = MainErr(a)

\* A Result without a failure handler has returned the error of main.
C12_WitnessNoHandler ==
    \E a \in OfKind("resultStep") :
        /\ MainFailed(a)
        /\ StepOf(a).failureHandler = Nil
        /\ Exited(a)
        /\ ExitErr(a) = MainErr(a)

\* The positions of the default branches of a multiFailureHandler.
DefaultsOf(h) == {j \in DOMAIN h.branches : h.branches[j].kind = "defaultBranch"}
\* The positions that match: a selector that returns true, or a default branch.
MatchesOf(h, holds) == holds \cup DefaultsOf(h)
FirstOf(S) == CHOOSE m \in S : \A x \in S : m <= x

\* C13: HandleMultiFailure evaluates the selectors in the order the branches
\* were passed, up to the first branch that matches, and selects that branch's
\* step; the selectors of later branches are not evaluated, and one branch
\* step, the selected one, executes.
C13_FirstMatchingBranch ==
    \A a \in OfKind("resultStep") :
        LET h == StepOf(a).failureHandler
            sel == Selected(a)
            ms == MatchesOf(h, sel.holds)
            failures == SelectSeq(CallsBy(a), LAMBDA c : c.slot = "failure")
        IN  (h # Nil /\ h.kind = "multiFailureHandler" /\ Has("select", a)) =>
                /\ \A x \in DOMAIN sel.evals :
                      /\ h.branches[sel.evals[x].branch].kind = "failureBranch"
                      /\ sel.evals[x].sel = (sel.evals[x].branch \in sel.holds)
                      /\ x > 1 => sel.evals[x - 1].branch < sel.evals[x].branch
                /\ ms # {} =>
                      /\ sel.step = h.branches[FirstOf(ms)].step
                      /\ {sel.evals[x].branch : x \in DOMAIN sel.evals} =
                            {j \in SelectorsOf(h) : j <= FirstOf(ms)}
                      /\ Len(failures) = 1
                      /\ failures[1].n = h.branches[FirstOf(ms)].step
                /\ ms = {} =>
                      /\ {sel.evals[x].branch : x \in DOMAIN sel.evals} = SelectorsOf(h)
                      /\ failures = <<>>

\* The second of three branches was selected after the first selector returned
\* false; the third selector would have returned true and was not evaluated;
\* the second branch's step ran and the Result returned.
C13_Witness ==
    \E a \in OfKind("resultStep") :
        LET h == StepOf(a).failureHandler
        IN  /\ h # Nil /\ h.kind = "multiFailureHandler"
            /\ SelectorsOf(h) = {1, 2, 3}
            /\ Has("select", a)
            /\ Selected(a).holds = {2, 3}
            /\ Len(Selected(a).evals) = 2
            /\ h.branches[2].step # h.branches[3].step
            /\ h.branches[2].step # h.branches[1].step
            /\ Exited(a)
            /\ CallsBy(a)[2].n = h.branches[2].step

\* C14: HandleMultiFailure selects the step of a default branch only when no
\* selector returns true for the error, wherever the default branch stands in
\* the argument list; when no selector returns true it selects the default
\* branch's step if there is one and no step if there is none.
C14_DefaultOnlyWhenNoMatch ==
    \A a \in OfKind("resultStep") :
        LET h == StepOf(a).failureHandler
            sel == Selected(a)
        IN  (h # Nil /\ h.kind = "multiFailureHandler" /\ Has("select", a)) =>
                /\ sel.by \in DefaultsOf(h) => sel.holds = {}
                /\ (sel.holds = {} /\ DefaultsOf(h) # {}) => sel.by \in DefaultsOf(h)
                /\ (sel.holds = {} /\ DefaultsOf(h) = {}) => sel.step = NoStep

\* ------------------------------------------------------- the chain at work
\* The call that started execution a.
CallOf(a) == trace[At("call", a)]
\* Execution a was started by a Result, for the given slot.
ByResultFor(a, slot) ==
    /\ CallOf(a).by # 0
    /\ StepOf(CallOf(a).by).kind = "resultStep"
    /\ CallOf(a).slot = slot

\* Executor.Exec was called (and not the start step's Exec by itself).
UnderExecutor ==
    \E i \in DOMAIN trace : trace[i].ev = "call" /\ trace[i].by = 0 /\ trace[i].slot = "start"

\* The positions in trace, in order, of the events of execution a whose kind
\* is in evs.
EventsOf(a, evs) ==
    SelectSeq([i \in 1 .. Len(trace) |-> i], LAMBDA i : trace[i].act = a /\ trace[i].ev \in evs)
Entered == {"before", "pass", "note"}
Loggers(chain) == SelectSeq(chain, LAMBDA mw : mw \in Interceptors)
Reverse(seq) == [k \in 1 .. Len(seq) |-> seq[Len(seq) + 1 - k]]
\* The positions of what execution a's own Exec does: its selectors, its
\* function, the executions it starts for its children, its return.
WorkOf(a) ==
    {i \in DOMAIN trace :
        \/ trace[i].act = a /\ trace[i].ev \in {"cond", "select", "run", "exit"}
        \/ trace[i].ev = "call" /\ trace[i].by = a}

\* C15: with the interceptors [L1..Lk] registered in this order, every node
\* executed under Executor.Exec sees L1 start, then L2, ..., then Lk, then its
\* own work with everything its descendants do, then Lk finish, ..., then L1
\* finish: the first one registered is the outermost, and a parent's
\* interceptors finish after all the events of its children.
C15_NestingOrder ==
    UnderExecutor =>
        \A a \in Executions :
            LET chain == e.middlewares
                k == Len(chain)
                entries == EventsOf(a, Entered)
                afters == EventsOf(a, {"after"})
                late == SelectSeq(afters, LAMBDA i : Exited(a) /\ i > At("exit", a))
                closing == Reverse(Loggers(chain))
            IN  /\ \A j \in 1 .. Len(entries) : j <= k => trace[entries[j]].mw = chain[j]
                /\ \A i \in WorkOf(a) : Len(entries) >= k /\ (k > 0 => entries[k] < i)
                /\ Len(late) <= Len(closing)
                /\ \A j \in 1 .. Len(late) : trace[late[j]].mw = closing[j]
                /\ (StepOf(a).kind # "stepWithErr" /\ ~Exited(a)) => afters = <<>>
                /\ Returned(a) =>
                      /\ Exited(a)
                      /\ Len(late) = Len(closing)
                      /\ \A j \in 1 .. Len(late) : late[j] < At("ret", a)
                /\ \A i \in DOMAIN trace :
                      trace[i].act = a =>
                          (At("call", a) <= i /\ (Returned(a) => i <= At("ret", a)))
                /\ Exited(a) =>
                      \A x \in DOMAIN CallsBy(a) :
                          /\ Returned(CallsBy(a)[x].act)
                          /\ At("ret", CallsBy(a)[x].act) < At("exit", a)

\* Under the chain [L2, L1] a step that has a child has returned to its caller.
C15_Witness ==
    /\ UnderExecutor
    /\ e.middlewares = <<"L2", "L1">>
    /\ \E a \in Executions :
          /\ Returned(a)
          /\ CallsBy(a) # <<>>
          /\ Len(EventsOf(a, {"after"})) = 2

\* C16: under Executor.Exec no step runs bare: whenever the Exec of a step of
\* the graph is active (the root, a child of a Series or Continue, the branch
\* an If, IfNot or IfElse took, the main, success or selected failure step of
\* a Result), it was called by the innermost of the Steps the Executor's whole
\* chain made of it, with the step's own name in the info, and its context
\* carries the chain.
C16_NoNodeRunsBare ==
    (pc = "exec" /\ UnderExecutor) =>
        \A i \in DOMAIN stack :
            stack[i].step.t = "node" =>
                LET chain == e.middlewares
                    k == Len(chain)
                    s == graph[stack[i].step.n]
                IN  /\ i > k
                    /\ stack[i].ctx.hasChain /\ stack[i].ctx.chain = chain
                    /\ \A j \in 1 .. k :
                          /\ stack[i - j].step.t = "wrapped"
                          /\ stack[i - j].step.mw = chain[k + 1 - j]
                          /\ stack[i - j].step.info.Name = StepName(s)
                          /\ stack[i - j].act = stack[i].act
                    /\ (i - k > 1) => stack[i - k - 1].step.t = "node"

\* The step selected by a Result's failure handler is running under a chain of
\* two interceptors.
C16_Witness ==
    /\ pc = "exec" /\ UnderExecutor
    /\ Len(e.middlewares) = 2
    /\ Last(stack).step.t = "node"
    /\ ByResultFor(Last(stack).act, "failure")

\* C17: under Executor.Exec the chain is applied once per execution of a step,
\* whatever the kind of the step: each registered interceptor is called once,
\* and its Step starts and finishes once.
C17_ChainAppliedOnce ==
    UnderExecutor =>
        \A a \in Executions :
            /\ Count("apply", a) = Len(e.middlewares)
            /\ Len(EventsOf(a, Entered)) <= Len(e.middlewares)
            /\ Len(EventsOf(a, {"after"})) <= Len(Loggers(e.middlewares))

\* C18: every interceptor is given CanSkip = true for an If, IfNot, IfElse,
\* Series, Continue or Result and CanSkip = false for a StepFunc; an
\* interceptor that only calls next for the steps that can be skipped lets
\* the step run: the step's own Exec runs after it, starts the children, and
\* its result is what the caller gets.
C18_CanSkipInfo ==
    \A a \in Executions :
        LET s == StepOf(a)
            composite == s.kind \in {"ifStep", "ifElseStep", "seriesStep", "continueStep",
                                      "resultStep"}
        IN  /\ \A i \in DOMAIN trace :
                  (trace[i].ev = "apply" /\ trace[i].act = a) =>
                      /\ composite => trace[i].info = [Name |-> StepName(s), CanSkip |-> TRUE]
                      /\ s.kind = "StepFunc" =>
                            trace[i].info = [Name |-> StepName(s), CanSkip |-> FALSE]
            /\ composite => ~Has("note", a)
            /\ s.kind = "StepFunc" => ~Has("pass", a)
            /\ (composite /\ Has("pass", a)) =>
                  /\ \A i \in WorkOf(a) : At("pass", a) < i
                  /\ Returned(a) => (Exited(a) /\ RetErr(a) = ExitErr(a))

\* Under a chain with the Skip interceptor a Series was passed through, its
\* two children ran and had their names written, and the Series returned.
C18_Witness ==
    \E a \in OfKind("seriesStep") :
        /\ Has("pass", a)
        /\ Returned(a)
        /\ Len(CallsBy(a)) = 2
        /\ \A x \in 1 .. 2 : Has("note", CallsBy(a)[x].act)

RECURSIVE ConcatAll(_)
ConcatAll(seqs) == IF seqs = <<>> THEN <<>> ELSE ConcatAll(Front(seqs)) \o Last(seqs)
\* The arguments of the Use calls made so far, in call order.
UseCalls ==
    LET uses == SelectSeq(trace, LAMBDA x : x.ev = "use")
    IN  [k \in 1 .. Len(uses) |-> uses[k].mwf]

\* C19: Use only appends: the Executor's chain is the concatenation of the
\* interceptors passed to all Use calls, in call order and argument order,
\* nothing dropped, reordered or deduplicated; an Exec started afterwards
\* applies that chain and runs every step with it in the context.
C19_UseAppends ==
    pc \in {"idle", "exec", "done"} =>
        /\ e.middlewares = ConcatAll(UseCalls)
        /\ UnderExecutor =>
              LET applied == EventsOf(1, {"apply"})
                  k == Len(ConcatAll(UseCalls))
              IN  /\ Len(applied) >= k
                  /\ \A j \in 1 .. k : trace[applied[j]].mw = ConcatAll(UseCalls)[k + 1 - j]
                  /\ \A i \in DOMAIN stack :
                        stack[i].ctx.hasChain /\ stack[i].ctx.chain = ConcatAll(UseCalls)

\* After Use(L1) and then Use(Skip), Exec has started and the Steps of both
\* interceptors have started.
C19_Witness ==
    /\ pc = "exec" /\ UnderExecutor
    /\ UseCalls = <<(<<"L1">>), (<<"Skip">>)>>
    /\ Len(EventsOf(1, Entered)) = 2

\* ------------------------------------------------- the error of the Result
\* Execution a runs inside the step a failure handler selected.
RECURSIVE InFailurePath(_)
InFailurePath(a) ==
    IF a = 0 THEN FALSE
    ELSE ByResultFor(a, "failure") \/ InFailurePath(CallOf(a).by)

\* C20: the function of a NewResultErrStep run as the step a Result's failure
\* handler selected gets the error the Result's main returned; run where no
\* failure path of a Result encloses it (as the root, as main or success of a
\* Result at top level), it gets nil.
C20_ResultErrPassed ==
    \A a \in OfKind("stepWithErr") :
        Has("run", a) =>
            /\ ByResultFor(a, "failure") => trace[At("run", a)].resErr = MainErr(CallOf(a).by)
            /\ ~InFailurePath(a) => trace[At("run", a)].resErr = Nil

\* A NewResultErrStep selected by a failure handler has run with the error of
\* the main step, under Executor.Exec.
C20_Witness ==
    \E a \in OfKind("stepWithErr") :
        /\ Has("run", a)
        /\ ByResultFor(a, "failure")
        /\ trace[At("run", a)].resErr # Nil
        /\ trace[At("run", a)].resErr = MainErr(CallOf(a).by)

\* A NewResultErrStep executed as the main step of a Result has run with nil.
C20_WitnessOutside ==
    \E a \in OfKind("stepWithErr") :
        /\ Has("run", a)
        /\ ByResultFor(a, "mainStep")
        /\ trace[At("run", a)].resErr = Nil

\* The error of the nearest failure path that encloses execution a: the error
\* main returned to the nearest Result above a that started, for its selected
\* failure step, a or a step above a (nil: no Result did).
RECURSIVE FailureErr(_)
FailureErr(a) ==
    IF a = 0 THEN Nil
    ELSE IF ByResultFor(a, "failure") THEN MainErr(CallOf(a).by)
    ELSE FailureErr(CallOf(a).by)

\* The nearest Result above execution a whose selected failure step is a or
\* is above a (0: none).
RECURSIVE FailureResult(_)
FailureResult(a) ==
    IF a = 0 THEN 0
    ELSE IF ByResultFor(a, "failure") THEN CallOf(a).by
    ELSE FailureResult(CallOf(a).by)

\* C21: the triggering error is overwritten per Result, not stacked: a
\* NewResultErrStep function that runs inside the failure step of a Result gets
\* the error of that Result's main, also when that Result itself runs inside
\* the failure step of an outer Result whose main failed with another error.
C21_NearestFailureError ==
    \A a \in OfKind("stepWithErr") :
        (Has("run", a) /\ InFailurePath(a)) => trace[At("run", a)].resErr = FailureErr(a)

\* An inner Result ran inside the failure step of an outer Result, both mains
\* failed, and a NewResultErrStep selected by the inner handler ran with the
\* inner main's error.
C21_Witness ==
    \E a \in OfKind("stepWithErr") :
        LET inner == FailureResult(a)
            outer == FailureResult(inner)
        IN  /\ Has("run", a)
            /\ inner # 0 /\ outer # 0
            /\ MainErr(inner) # MainErr(outer)
            /\ trace[At("run", a)].resErr = MainErr(inner)

\* The slot of the nearest Result above execution a through which a is
\* reached ("none": no Result is above a).
RECURSIVE ResultSlot(_)
ResultSlot(a) ==
    IF a = 0 \/ CallOf(a).by = 0 THEN "none"
    ELSE IF StepOf(CallOf(a).by).kind = "resultStep" THEN CallOf(a).slot
    ELSE ResultSlot(CallOf(a).by)

\* C22: a NewResultErrStep function never gets the error of a Result other
\* than the nearest one above it: run as, or under, the main or success child
\* of a Result it gets no error, also when that Result runs inside the failure
\* step of an outer Result.
C22_NoOuterError ==
    \A a \in OfKind("stepWithErr") :
        (Has("run", a) /\ ResultSlot(a) \in {"mainStep", "successStep"}) =>
            trace[At("run", a)].resErr = Nil

\* C30: the triggering error lives in a derived context used for the selected
\* failure step only: the context of every active Exec holds the error of the
\* failure path that encloses it and no other, so the Result's own context and
\* that of its caller stay as they were, and a function that runs after the
\* Result returned, outside its failure step, gets no error from it.
C30_ErrorScopedToFailureStep ==
    /\ \A i \in DOMAIN stack : stack[i].ctx.resErr = FailureErr(stack[i].act)
    /\ \A a \in OfKind("stepWithErr") :
          Has("run", a) => trace[At("run", a)].resErr = FailureErr(a)

\* A Result handled the failure of its main and returned; a later child of the
\* enclosing Series or Continue, a NewResultErrStep, ran and got nil.
C30_Witness ==
    \E a \in OfKind("stepWithErr") :
        /\ Has("run", a)
        /\ CallOf(a).by # 0
        /\ StepOf(CallOf(a).by).kind \in {"seriesStep", "continueStep"}
        /\ trace[At("run", a)].resErr = Nil
        /\ \E b \in OfKind("resultStep") :
              /\ CallOf(b).by = CallOf(a).by
              /\ b < a
              /\ Len(CallsBy(b)) = 2
              /\ ByResultFor(CallsBy(b)[2].act, "failure")

\* The steps whose check is under way: those of the frames of checkDAGRecursive
\* that are past the look-up of lines 74-81.
ActivePath == {vstack[i].step : i \in {j \in DOMAIN vstack : vstack[j].at # "enter"}}

\* C26: in the validator every node put in the active-path set on entry is
\* taken out when the traversal of its subtree returns without a cycle, for a
\* leaf, an If/IfNot and a composite with several children alike: the set
\* holds the nodes whose check is under way and no other, and it is empty when
\* validation succeeds.
C26_VisitedIsActivePath ==
    /\ pc = "new" => visited = {Ptr(n) : n \in ActivePath}
    /\ pc = "idle" => visited = {}

\* The children of a node in the order of its accessor: the step of an
\* If/IfNot; then, else; the list of a Series or Continue; main, success.
ChildSeq(n) == IF HasUnwrapOne(graph[n]) THEN <<ifStepUnwrap(graph[n])>>
               ELSE IF HasUnwrapMany(graph[n]) THEN UnwrapMany(graph[n])
               ELSE <<>>

\* The depth-first traversal from the start step, children in accessor order,
\* that stops at the first back-edge: todo holds the nodes still to enter and
\* the nodes still to leave, path the nodes entered and not left; the result
\* is the nodes entered, in order, and the node re-entered (NoStep: none).
RECURSIVE DepthFirst(_, _, _)
DepthFirst(todo, path, log) ==
    IF todo = <<>> THEN [log |-> log, cycle |-> NoStep]
    ELSE LET t == Head(todo)
         IN  IF t.op = "leave" THEN DepthFirst(Tail(todo), path \ {t.step}, log)
             ELSE IF t.step \in path THEN [log |-> Append(log, t.step), cycle |-> t.step]
             ELSE DepthFirst([i \in DOMAIN ChildSeq(t.step) |->
                                  [op |-> "enter", step |-> ChildSeq(t.step)[i]]]
                              \o <<[op |-> "leave", step |-> t.step]>> \o Tail(todo),
                             path \cup {t.step}, Append(log, t.step))

\* C27: the validator traverses depth-first, children in accessor order, and
\* stops at the first back-edge: the nodes it enters are those of that
\* traversal, in that order, it fails exactly when the traversal meets a
\* back-edge, the ErrCycle names the node re-entered first, and no node is
\* entered after it.
C27_FirstBackEdge ==
    LET dfs == DepthFirst(<<[op |-> "enter", step |-> root]>>, {}, <<>>)
    IN  /\ pc = "new" => /\ Len(vlog) <= Len(dfs.log)
                         /\ vlog = SubSeq(dfs.log, 1, Len(vlog))
        /\ NewReturned =>
              /\ vlog = dfs.log
              /\ (dfs.cycle = NoStep) = (newErr = Nil)
              /\ dfs.cycle # NoStep => newErr = ErrInvalidOf(ErrCycleOf(StepName(graph[dfs.cycle])))

\* ---------------------------------------------- MiddlewareChain.Wrap alone
\* The chain handed to Wrap in this behaviour.
WrapChain == SelectSeq(trace, LAMBDA x : x.ev = "wrap")[1].mwf
Wrapped == \E i \in DOMAIN trace : trace[i].ev = "wrap"

\* C28: MiddlewareChain.Wrap(step) applies the interceptors from the last
\* registered to the first around that one step: run with a context that
\* carries no chain, the Steps of the interceptors start in registration order
\* before the step's own work and finish in the reverse order after it, and
\* every descendant of the step runs with no interceptor called for it and no
\* chain in its context.
C28_WrapOneStep ==
    Wrapped =>
        LET chain == WrapChain
            k == Len(chain)
            applied == EventsOf(1, {"apply"})
            entries == EventsOf(1, Entered)
            afters == EventsOf(1, {"after"})
            closing == Reverse(Loggers(chain))
        IN  /\ Len(applied) = k
            /\ \A j \in 1 .. k : trace[applied[j]].mw = chain[k + 1 - j]
            /\ Len(entries) <= k
            /\ \A j \in 1 .. Len(entries) : trace[entries[j]].mw = chain[j]
            /\ \A i \in WorkOf(1) : Len(entries) = k /\ (k > 0 => entries[k] < i)
            /\ Len(afters) <= Len(closing)
            /\ \A j \in 1 .. Len(afters) :
                  trace[afters[j]].mw = closing[j] /\ At("exit", 1) < afters[j]
            /\ Returned(1) => Len(afters) = Len(closing)
            /\ \A a \in Executions \ {1} :
                  EventsOf(a, {"apply", "after"} \cup Entered) = <<>>
            /\ \A i \in DOMAIN stack :
                  /\ ~stack[i].ctx.hasChain
                  /\ stack[i].act # 1 => stack[i].step.t # "wrapped"

\* A step wrapped with [L1, L2] ran a child and returned: L1 started, L2
\* started, the child ran and returned, L2 finished, L1 finished.
C28_Witness ==
    /\ Wrapped
    /\ WrapChain = <<"L1", "L2">>
    /\ Returned(1)
    /\ CallsBy(1) # <<>>
    /\ Len(EventsOf(1, {"after"})) = 2

\* ----------------------------------------------------- the state handed on
\* C29: the state an interceptor passes to next is the state next receives,
\* the wrapped step and, through it, its descendants; it does not leak
\* sideways or upwards: a step's Exec hands its own state to every child it
\* starts, so a later sibling gets the parent's state and not the one
\* substituted for an earlier sibling, and the parent goes on with its own.
C29_StateHandedDown ==
    /\ \A i \in DOMAIN stack :
          /\ (i = 1 /\ pc = "exec") => stack[i].state = CallOf(stack[i].act).state
          /\ i > 1 =>
                stack[i].state = IF stack[i - 1].step.t = "wrapped"
                                 THEN nextState(stack[i - 1].step.mw, stack[i - 1].state)
                                 ELSE stack[i - 1].state
          /\ stack[i].step.t = "node" =>
                \A x \in DOMAIN CallsBy(stack[i].act) :
                    CallsBy(stack[i].act)[x].state = stack[i].state
    /\ \A a \in Executions :
          \A x, y \in DOMAIN CallsBy(a) : CallsBy(a)[x].state = CallsBy(a)[y].state

\* Under a chain with the Skip interceptor a step started two children, both
\* with the state the interceptor had substituted for the step itself, and the
\* first child, run with a state substituted once more, has returned.
C29_Witness ==
    \E a \in Executions :
        /\ Len(CallsBy(a)) = 2
        /\ Has("pass", a)
        /\ CallsBy(a)[1].state > CallOf(a).state
        /\ CallsBy(a)[2].state = CallsBy(a)[1].state
        /\ Has("note", CallsBy(a)[1].act)

\* ---------------------------------------------- several calls of Exec
\* The calls of Exec: the running one, then the others.
Calls == <<Local>> \o others
\* What a call did, in order, and the event of its start.
RunOf(c) == SelectSeq(c.trace, LAMBDA x : x.ev # "use")
Started(c) == RunOf(c) # <<>>
RootCall(c) == RunOf(c)[1]
Finished(c) == c.pc = "done"

\* Two events of two calls differ.
Differ(x, y) ==
    \/ x.ev # y.ev
    \/ x.act # y.act
    \/ IF x.ev = "call"
       THEN x.n # y.n \/ x.by # y.by \/ x.state # y.state \/ (x.by # 0 /\ x.slot # y.slot)
       ELSE x # y

\* The first position where two runs differ (0: one is a prefix of the other).
RECURSIVE FirstDiff(_, _, _)
FirstDiff(t1, t2, i) ==
    IF i > Len(t1) \/ i > Len(t2) THEN 0
    ELSE IF Differ(t1[i], t2[i]) THEN i
    ELSE FirstDiff(t1, t2, i + 1)

\* Two events that differ only in what the user's code answered: the value of
\* a predicate, what a function returned given the same state and error, what
\* the selectors of a failure handler returned for the same error.
SameQuestion(x, y) ==
    /\ x.ev = y.ev /\ x.act = y.act
    /\ \/ x.ev = "cond"
       \/ x.ev = "run" /\ x.n = y.n /\ x.state = y.state /\ x.resErr = y.resErr
       \/ x.ev = "select" /\ x.err = y.err

\* Two calls did the same as long as the user's code answered the same: the
\* same steps in the same order under the same interceptors, and, once both
\* have returned with the same answers all along, the same result.
Agree(c1, c2) ==
    LET t1 == RunOf(c1)
        t2 == RunOf(c2)
        d == FirstDiff(t1, t2, 1)
    IN  /\ d # 0 => SameQuestion(t1[d], t2[d])
        /\ (d = 0 /\ Finished(c1)) => Len(t2) <= Len(t1)
        /\ (d = 0 /\ Finished(c2)) => Len(t1) <= Len(t2)
        /\ (d = 0 /\ Finished(c1) /\ Finished(c2)) => c1.result = c2.result

\* C23: calls of Exec on one Executor, interleaved at any step with no Use
\* under way, do not interfere: two calls given the same context do the same as
\* long as the user's code answers the same, whatever the other does
\* meanwhile; every active Exec of every call has the Executor's chain in its
\* context; and a NewResultErrStep function gets the error of the failure
\* path of its own call that encloses it, nil if there is none.
C23_CallsDoNotInterfere ==
    /\ \A i, j \in DOMAIN Calls :
          (i < j /\ Started(Calls[i]) /\ Started(Calls[j])
                 /\ RootCall(Calls[i]).done = RootCall(Calls[j]).done)
              => Agree(Calls[i], Calls[j])
    /\ \A i \in DOMAIN Calls :
          \A x \in DOMAIN Calls[i].stack :
              /\ Calls[i].stack[x].ctx.hasChain
              /\ Calls[i].stack[x].ctx.chain = e.middlewares
    /\ \A a \in OfKind("stepWithErr") :
          Has("run", a) => trace[At("run", a)].resErr = FailureErr(a)

\* Two calls with the same context that were under way at the same time, under
\* an interceptor, have returned, the same error, after the same events, and in
\* one of them a NewResultErrStep function got the error of its Result's main.
C23_Witness ==
    /\ Len(others) = 1
    /\ Finished(Local) /\ Finished(others[1])
    /\ RootCall(Local).after = 0 /\ RootCall(others[1]).after = 0
    /\ RootCall(Local).done = RootCall(others[1]).done
    /\ FirstDiff(RunOf(Local), RunOf(others[1]), 1) = 0
    /\ e.middlewares # <<>>
    /\ result # Nil
    /\ \E a \in OfKind("stepWithErr") : Has("run", a) /\ trace[At("run", a)].resErr # Nil

\* C24: Exec leaves the Executor as it was: from the start of any call of Exec
\* on, start step, graph and chain are those the call found; so a call of Exec
\* made after another has returned does the same as that one as long as the
\* user's code answers the same, and returns the same.
C24_ExecLeavesExecutor ==
    /\ \A i \in DOMAIN Calls :
          Started(Calls[i]) =>
              /\ RootCall(Calls[i]).exec = e
              /\ RootCall(Calls[i]).n = root
    /\ \A i, j \in DOMAIN Calls :
          (i # j /\ Started(Calls[i]) /\ Started(Calls[j]) /\ RootCall(Calls[j]).after > 0)
              => Agree(Calls[i], Calls[j])

\* A call of Exec made after another had returned has returned too, under an
\* interceptor, after the same events and with the same error.
C24_Witness ==
    /\ Len(others) = 1
    /\ Finished(Local) /\ Finished(others[1])
    /\ RootCall(Local).after = 1
    /\ FirstDiff(RunOf(Local), RunOf(others[1]), 1) = 0
    /\ e.middlewares # <<>>
    /\ Len(RunOf(Local)) > 6
    /\ result # Nil

\* C25: no composite reacts to cancellation: a call of Exec whose context is
\* done and one whose context is live select and execute the same children in
\* the same order as long as the user's code answers the same, and the context
\* is only handed on: every active Exec of a call has a context that is done
\* exactly if the one given to the call is.
C25_CancellationIgnored ==
    /\ \A i, j \in DOMAIN Calls :
          (i < j /\ Started(Calls[i]) /\ Started(Calls[j])
                 /\ RootCall(Calls[i]).done # RootCall(Calls[j]).done)
              => Agree(Calls[i], Calls[j])
    /\ \A i \in DOMAIN Calls :
          \A x \in DOMAIN Calls[i].stack :
              Calls[i].stack[x].ctx.done = RootCall(Calls[i]).done

\* A Series or Continue with two children was run with a context that is done
\* and with a live one: both calls started both children and returned the same.
C25_Witness ==
    /\ Len(others) = 1
    /\ Finished(Local) /\ Finished(others[1])
    /\ RootCall(Local).done # RootCall(others[1]).done
    /\ FirstDiff(RunOf(Local), RunOf(others[1]), 1) = 0
    /\ StepOf(1).kind \in {"seriesStep", "continueStep"}
    /\ Len(CallsBy(1)) = 2

\* ------------------------------------------- what triggers the handler
\* The child a Result started for the given slot has returned an error.
ChildFailed(a, slot) ==
    \E x \in DOMAIN CallsBy(a) :
        /\ CallsBy(a)[x].slot = slot
        /\ Returned(CallsBy(a)[x].act)
        /\ RetErr(CallsBy(a)[x].act) # Nil
ChildErr(a, slot) ==
    RetErr(CallsBy(a)[CHOOSE x \in DOMAIN CallsBy(a) : CallsBy(a)[x].slot = slot].act)

\* C37: the failure handler of a Result is triggered by an error of main
\* only: it is consulted after main returned an error, once at most; an error
\* returned by the success child, or by the selected failure step, is what the
\* Result returns, as it is, and the handler is not consulted for it.
C37_OnlyMainTriggersHandler ==
    \A a \in OfKind("resultStep") :
        /\ Count("select", a) <= 1
        /\ Has("select", a) =>
              /\ MainFailed(a)
              /\ At("ret", CallsBy(a)[1].act) < At("select", a)
              /\ Selected(a).err = MainErr(a)
        /\ ChildFailed(a, "successStep") =>
              /\ ~Has("select", a)
              /\ Len(CallsBy(a)) = 2
              /\ Exited(a) => ExitErr(a) = ChildErr(a, "successStep")
        /\ ChildFailed(a, "failure") =>
              /\ Len(CallsBy(a)) = 2
              /\ \A i \in DOMAIN trace :
                    (trace[i].ev = "select" /\ trace[i].act = a) =>
                        i < At("call", CallsBy(a)[2].act)
              /\ Exited(a) => ExitErr(a) = ChildErr(a, "failure")

\* A Result with a failure handler has returned the error of its success
\* child without consulting the handler, and a Result has returned the error
\* of the failure step its handler selected.
C37_Witness ==
    /\ \E a \in OfKind("resultStep") :
          /\ StepOf(a).failureHandler # Nil
          /\ ChildFailed(a, "successStep")
          /\ Exited(a) /\ ExitErr(a) = ChildErr(a, "successStep")
    /\ \E b \in OfKind("resultStep") :
          /\ ChildFailed(b, "failure")
          /\ Exited(b) /\ ExitErr(b) = ChildErr(b, "failure")
          /\ ExitErr(b) # MainErr(b)

\* ------------------------------------------------ validation and execution
\* C35: validation is structural and happens in New only: while New checks
\* the graph no step is executed, no predicate or selector is evaluated and no
\* interceptor is called (nothing is added to the trace, no Exec is active),
\* and once New has returned nothing checks the graph again: Use and Exec
\* leave the validator's state as New left it.
C35_ValidationOnlyInNew ==
    [][/\ pc = "new" => UNCHANGED <<stack, ret, acts, trace, result>>
       /\ pc # "new" => UNCHANGED <<visited, vstack, vlog, newErr, graph, root>>]_vars

\* New has accepted a graph in which it entered an If and a Result with a
\* failure handler, and nothing has run.
C35_Witness ==
    /\ pc = "idle"
    /\ trace = <<>> /\ acts = 0 /\ stack = <<>>
    /\ \E i \in DOMAIN vlog : graph[vlog[i]].kind = "ifStep"
    /\ \E i \in DOMAIN vlog :
          graph[vlog[i]].kind = "resultStep" /\ graph[vlog[i]].failureHandler # Nil

\* ------------------------------------- interceptors and what is executed
InterceptorEvents == {"apply", "before", "after", "pass", "note"}

\* Execution a was due: the step that started it was to run it, given what
\* its predicate returned, what its earlier children returned and what its
\* failure handler selected.
Due(a) ==
    LET c == CallOf(a)
        b == c.by
        s == StepOf(b)
        cs == CallsBy(b)
    IN  IF b = 0 THEN TRUE
        ELSE IF s.kind = "ifStep"
        THEN Has("cond", b) /\ condition(s.condition, trace[At("cond", b)].sel)
        ELSE IF s.kind = "ifElseStep"
        THEN /\ Has("cond", b)
             /\ c.slot = IF condition(s.condition, trace[At("cond", b)].sel)
                         THEN "thenStep" ELSE "elseStep"
        ELSE IF s.kind = "seriesStep"
        THEN \A k \in DOMAIN cs :
                 cs[k].act < a => (Returned(cs[k].act) /\ RetErr(cs[k].act) = Nil)
        ELSE IF s.kind = "resultStep"
        THEN /\ c.slot = "successStep" => (~MainFailed(b) /\ Returned(cs[1].act))
             /\ c.slot = "failure" =>
                   (MainFailed(b) /\ Has("select", b) /\ Selected(b).step = c.n)
        ELSE TRUE

\* C31: interceptors are invoked for the nodes that are executed and for no
\* other: under Executor.Exec every interceptor is applied, and every
\* interceptor's Step runs, for an execution that has started; and an
\* execution starts only when it is due, so
\* never for the branch an If, IfNot or IfElse did not take, a child of a
\* Series after one that failed, the success child of a Result whose main
\* failed, or a failure step that was not selected or whose Result's main
\* returned nil.
C31_InterceptedOnlyIfExecuted ==
    UnderExecutor =>
        /\ \A i \in DOMAIN trace :
              trace[i].ev \in InterceptorEvents =>
                  /\ Has("call", trace[i].act)
                  /\ At("call", trace[i].act) < i
        /\ \A a \in Executions : Due(a)

\* Under a logging interceptor a Series of two children has returned after
\* its first child failed: the interceptor ran for the Series and for that
\* child, twice in all.
C31_Witness ==
    /\ UnderExecutor
    /\ e.middlewares = <<"L1">>
    /\ \E a \in OfKind("seriesStep") :
          /\ Len(StepOf(a).steps) = 2
          /\ Exited(a) /\ ExitErr(a) # Nil
          /\ Len(CallsBy(a)) = 1
          /\ StepOf(CallsBy(a)[1].act).kind = "StepFunc"
    /\ Cardinality({i \in DOMAIN trace : trace[i].ev = "before"}) = 2
    /\ pc = "done"

\* ------------------------------------------- interception is transparent
\* What the user's code did in a call: the predicates evaluated, the
\* functions run, the selectors of failure handlers consulted, in order.
WorkIn(c) == SelectSeq(c.trace, LAMBDA x : x.ev \in {"cond", "run", "select"})

\* The same user code ran in two calls as long as it answered the same, and
\* the two calls returned the same once both have returned.
SameWork(c1, c2) ==
    LET t1 == WorkIn(c1)
        t2 == WorkIn(c2)
        d == FirstDiff(t1, t2, 1)
    IN  /\ d # 0 => SameQuestion(t1[d], t2[d])
        /\ (d = 0 /\ Finished(c1)) => Len(t2) <= Len(t1)
        /\ (d = 0 /\ Finished(c2)) => Len(t1) <= Len(t2)
        /\ (d = 0 /\ Finished(c1) /\ Finished(c2)) => c1.result = c2.result

\* C36: interception is transparent to control flow: with an empty chain, or
\* with interceptors that only call next with the context and state they were
\* given, Executor.Exec runs the same functions in the same order, with the
\* same state and triggering error, evaluates the same predicates and
\* selectors, and returns the same, as the start step's Exec called directly,
\* as long as the user's code answers the same.
C36_InterceptionTransparent ==
    \A i, j \in DOMAIN Calls :
        (/\ Started(Calls[i]) /\ RootCall(Calls[i]).slot = "start"
         /\ Started(Calls[j]) /\ RootCall(Calls[j]).slot = "direct")
            => SameWork(Calls[i], Calls[j])

\* Under two logging interceptors Executor.Exec, and the start step's Exec
\* called directly, have run the same functions, one of them with the error
\* of a Result's main, and returned the same error.
C36_Witness ==
    /\ Len(others) = 1
    /\ Finished(Local) /\ Finished(others[1])
    /\ {RootCall(Local).slot, RootCall(others[1]).slot} = {"start", "direct"}
    /\ Len(e.middlewares) = 2
    /\ WorkIn(Local) = WorkIn(others[1])
    /\ \E k \in DOMAIN WorkIn(Local) :
          WorkIn(Local)[k].ev = "run" /\ WorkIn(Local)[k].resErr # Nil
    /\ result # Nil /\ result = others[1].result

\* The same with an empty chain.
C36_WitnessEmptyChain ==
    /\ Len(others) = 1
    /\ Finished(Local) /\ Finished(others[1])
    /\ {RootCall(Local).slot, RootCall(others[1]).slot} = {"start", "direct"}
    /\ e.middlewares = <<>>
    /\ WorkIn(Local) = WorkIn(others[1])
    /\ Len(WorkIn(Local)) >= 2

\* --------------------------------------- an interceptor that stops a node
\* C33: an interceptor controls whether what it wraps runs: when the Step of
\* interceptor Li returns without calling next, then, for that execution, the
\* Steps of L1..L(i-1) have started before it in registration order and no
\* Step of a later interceptor starts, the step's own work does not run (no
\* predicate, function or selector, no child started), the execution returns
\* to its caller what Li returned, and the Steps of L1..L(i-1) finish, in
\* reverse order, on the way.
C33_InterceptorStops ==
    \A a \in Executions :
        Has("stop", a) =>
            LET chain == e.middlewares
                k == Len(chain)
                entries == EventsOf(a, {"before", "go", "stop"})
                m == Len(entries)
                befores == EventsOf(a, {"before"})
                afters == EventsOf(a, {"after"})
            IN  /\ Count("stop", a) = 1
                /\ entries[m] = At("stop", a)
                /\ m <= 2 * k
                /\ StepOf(a).kind # "stepWithErr" => m <= k
                /\ \A j \in 1 .. m : trace[entries[j]].mw = chain[((j - 1) % k) + 1]
                /\ \A i \in DOMAIN trace :
                      trace[i].act = a => trace[i].ev \notin {"cond", "run", "select"}
                /\ CallsBy(a) = <<>>
                /\ \A j \in DOMAIN afters : At("stop", a) < afters[j]
                /\ Returned(a) =>
                      /\ RetErr(a) = trace[At("stop", a)].err
                      /\ Len(afters) = Len(befores)
                      /\ \A j \in DOMAIN afters :
                            /\ trace[afters[j]].mw = trace[befores[Len(befores) + 1 - j]].mw
                            /\ trace[afters[j]].err = trace[At("stop", a)].err

\* Under a chain of a logging interceptor, a stopping one and a logging one
\* again, a child of a Series was stopped by the second interceptor, which
\* returned an error: the first started and finished for the child, the third
\* did not start for it, and the Series returned that error.
C33_Witness ==
    /\ UnderExecutor
    /\ e.middlewares = <<"L1", "Stop", "L1">>
    /\ \E a \in Executions :
          /\ Has("stop", a) /\ Returned(a)
          /\ RetErr(a) = ErrStop
          /\ Len(EventsOf(a, {"before"})) = 1
          /\ Len(EventsOf(a, {"after"})) = 1
          /\ CallOf(a).by # 0
          /\ StepOf(CallOf(a).by).kind = "seriesStep"
          /\ Exited(CallOf(a).by)
          /\ ExitErr(CallOf(a).by) = ErrStop

\* ------------------------------------------------- Use during an Exec
\* The interceptors passed to the Use calls a call's trace holds, those made
\* before the call started and those its steps made.
UsedIn(c) ==
    LET uses == SelectSeq(c.trace, LAMBDA x : x.ev = "use")
    IN  ConcatAll([k \in 1 .. Len(uses) |-> uses[k].mwf])
\* The chain the Executor had when the call started.
ChainOf(c) == RootCall(c).exec.middlewares
\* What Use added before the call started, as its caller's trace has it.
UsedAhead(c) ==
    LET first == CHOOSE i \in DOMAIN c.trace : c.trace[i].ev = "call" /\ c.trace[i].by = 0
        uses == SelectSeq(SubSeq(c.trace, 1, first), LAMBDA x : x.ev = "use")
    IN  ConcatAll([k \in 1 .. Len(uses) |-> uses[k].mwf])
\* The calls that started, each one after the ones before it returned, and
\* what Use added up to the return of the first k of them.
StartedCalls == {i \in DOMAIN Calls : Started(Calls[i])}
RECURSIVE UsedUpTo(_)
UsedUpTo(k) ==
    IF k = 0 THEN <<>>
    ELSE LET i == CHOOSE j \in StartedCalls : RootCall(Calls[j]).after = k - 1
         IN  UsedUpTo(k - 1) \o UsedIn(Calls[i])

RECURSIVE Enclosing(_)
Enclosing(a) ==
    IF CallOf(a).by = 0 THEN {} ELSE {CallOf(a).by} \cup Enclosing(CallOf(a).by)

\* C34: an Executor New returned runs no execution of a node nested inside an
\* execution of the same node (so that, the user's code terminating, Exec
\* terminates after a bounded number of executions of each node).
C34_NoNestedExecution ==
    UnderExecutor =>
        \A a \in Executions : \A b \in Enclosing(a) : CallOf(b).n # CallOf(a).n

====
